---- MODULE Spec2Model ----
(***************************************************************************)
(* RIB -> FIB projection (ForwardingInformationBaseUpdater) and the route  *)
(* walker (forEachChangedRoute) of the switch agent, over a copy-on-write  *)
(* SwitchState whose nodes are held in heaps so that node identity         *)
(* (shared_ptr equality) and node content are distinct notions.            *)
(***************************************************************************)
EXTENDS Integers, Sequences, FiniteSets, TLC

(* ------------------------------------------------------------------------ *)
(* Bounds of the model                                                      *)
(* ------------------------------------------------------------------------ *)
\* prefixes per address family, in RoutePrefix order
MaxPrefix == 2
\* router ids (VRFs)
MaxVrf == 2
\* applications of the FIB updater in one run
MaxApply == 2
\* single-route changes of the RIB snapshot in one run
MaxEdits == 2
\* VRFs added to or removed from the state in one run
MaxEnv == 2
\* single-route changes of the FIBs / route tables the walker is run over
MaxChanges == 3
\* the latest callback invocation of a walk that may raise an error
MaxThrowAt == 2
\* calls made on a neighbor entry from outside its timer
MaxNbrOps == 2
\* the largest configured base reachable-time, in seconds
MaxBaseTimeout == 3
\* calls a thread makes on the cache's API while the timers run
MaxLockOps == 3

Prefix == 1..MaxPrefix
Vrf == 1..MaxVrf
\* IPv4 first, IPv6 second: the order of the untyped walker
Family == <<"v4", "v6">>
FamilySet == {Family[i] : i \in 1..Len(Family)}

\* a null shared_ptr / an absent map entry; node ids start at 1
Nil == 0
\* std::optional<InterfaceID> without a value; interface ids start at 1
NoIntf == 0

(* ------------------------------------------------------------------------ *)
(* RIB side: rib::RouteNextHopEntry, rib::Route, NetworkToRouteMap          *)
(* ------------------------------------------------------------------------ *)
\* next hops of the RIB: (addr, optional interface id, weight)
RibNextHops ==
  { [addr |-> 1, intfID |-> 1, weight |-> 1],
    [addr |-> 2, intfID |-> NoIntf, weight |-> 1] }

\* rib::RouteNextHopEntry values: DROP, TO_CPU, and next-hop sets with and
\* without interface ids, under two admin distances
RibForwardInfos ==
  [action : {"DROP", "TO_CPU"}, nhops : {{}}, adminDistance : {1}]
    \cup [action : {"NEXTHOPS"}, nhops : {{h} : h \in RibNextHops},
          adminDistance : {1}]
    \cup [action : {"NEXTHOPS"},
          nhops : {{h \in RibNextHops : h.intfID # NoIntf}},
          adminDistance : {2}]

\* no entry for the prefix in the NetworkToRouteMap (exactMatch == end())
NoRoute ==
  [present |-> FALSE, resolved |-> FALSE,
   fwd |-> [action |-> "DROP", nhops |-> {}, adminDistance |-> 255],
   classID |-> 0, connected |-> FALSE]

\* a route the resolution pass left unresolved
UnresolvedRoute == [NoRoute EXCEPT !.present = TRUE]

\* the routes a snapshot may hold for a prefix: unresolved, or resolved with
\* any forwardInfo; the class id and the connected flag vary on the routes
\* with next hops
RibRoutes ==
  {UnresolvedRoute} \cup
    [present : {TRUE}, resolved : {TRUE}, fwd : RibForwardInfos,
     classID : {0}, connected : {FALSE}] \cup
    [present : {TRUE}, resolved : {TRUE},
     fwd : {f \in RibForwardInfos : f.action = "NEXTHOPS" /\ f.adminDistance = 1},
     classID : {0, 1}, connected : BOOLEAN]

EmptyRib == [f \in FamilySet |-> [p \in Prefix |-> NoRoute]]

(* ------------------------------------------------------------------------ *)
(* FIB side: RouteNextHopEntry, Route<AddrT>, ForwardingInformationBase     *)
(* ------------------------------------------------------------------------ *)
\* what evaluating toFibNextHop yields when std::optional::value() throws
Thrown == [action |-> "bad_optional_access", nhops |-> {}, adminDistance |-> 0]

\* ResolvedNextHop(addr, intfID().value(), weight)
FibNextHop(h) == [addr |-> h.addr, intf |-> h.intfID, weight |-> h.weight]

\* faulty variant: the switch has no TO_CPU case and falls through to the
\* fatal log
ToFibNextHop_Fatal(e) ==
  CASE e.action = "DROP" ->
         [action |-> "DROP", nhops |-> {}, adminDistance |-> e.adminDistance]
    [] e.action = "NEXTHOPS" ->
         IF \E h \in e.nhops : h.intfID = NoIntf
           THEN Thrown
           ELSE [action |-> "NEXTHOPS",
                 nhops |-> {FibNextHop(h) : h \in e.nhops},
                 adminDistance |-> e.adminDistance]
    [] OTHER -> Thrown

\* toFibNextHop: the FIB entry for a RIB entry; value() throws on a next hop
\* that has no interface id
ToFibNextHop(e) ==
  CASE e.action = "DROP" ->
         [action |-> "DROP", nhops |-> {}, adminDistance |-> e.adminDistance]
    [] e.action = "TO_CPU" ->
         [action |-> "TO_CPU", nhops |-> {}, adminDistance |-> e.adminDistance]
    [] e.action = "NEXTHOPS" ->
         IF \E h \in e.nhops : h.intfID = NoIntf
           THEN Thrown
           ELSE [action |-> "NEXTHOPS",
                 nhops |-> {FibNextHop(h) : h \in e.nhops},
                 adminDistance |-> e.adminDistance]

\* std::make_shared<Route<AddrT>>(fibPrefix): a fresh, unresolved route
NewRoute(p) ==
  [prefix |-> p, resolved |-> FALSE,
   fwd |-> [action |-> "DROP", nhops |-> {}, adminDistance |-> 255],
   classID |-> 0, connected |-> FALSE]

\* the fields toFibRoute writes into the node it got from clone()/make_shared
FibRouteFields(ribRoute, base) ==
  [base EXCEPT !.resolved = TRUE,
               !.fwd = ToFibNextHop(ribRoute.fwd),
               !.connected = (base.connected \/ ribRoute.connected),
               !.classID = ribRoute.classID]

\* faulty variant: the prior node is written instead of a clone of it
ToFibRoute_InPlace(ribRoute, p, curFibRoute, rnodes) ==
  IF curFibRoute # Nil
    THEN [id |-> curFibRoute,
          rnodes |-> [rnodes EXCEPT ![curFibRoute] =
                        FibRouteFields(ribRoute, rnodes[curFibRoute])]]
    ELSE [id |-> Len(rnodes) + 1,
          rnodes |-> Append(rnodes, FibRouteFields(ribRoute, NewRoute(p)))]

\* faulty variant: updateClassID is left out
ToFibRoute_KeepClassID(ribRoute, p, curFibRoute, rnodes) ==
  LET base == IF curFibRoute # Nil THEN rnodes[curFibRoute] ELSE NewRoute(p)
  IN [id |-> Len(rnodes) + 1,
      rnodes |-> Append(rnodes,
                   [FibRouteFields(ribRoute, base) EXCEPT !.classID = base.classID])]

\* toFibRoute: clone the prior node (or make a new one) and write the fields;
\* the result is a node of its own, appended to the heap of route nodes
ToFibRoute(ribRoute, p, curFibRoute, rnodes) ==
  LET base == IF curFibRoute # Nil THEN rnodes[curFibRoute] ELSE NewRoute(p)
  IN [id |-> Len(rnodes) + 1,
      rnodes |-> Append(rnodes, FibRouteFields(ribRoute, base))]

\* faulty variant: the prior node is never reused
ReusePriorRoute_Never(ribRoute, fibRoute) == FALSE

\* faulty variant: the RIB entry is compared without toFibNextHop
ReusePriorRoute_Unprojected(ribRoute, fibRoute) ==
  fibRoute.classID = ribRoute.classID /\ ribRoute.fwd = fibRoute.fwd

\* lines 92-94: the prior FIB route is reused when classID and forwardInfo agree
ReusePriorRoute(ribRoute, fibRoute) ==
  fibRoute.classID = ribRoute.classID /\ ToFibNextHop(ribRoute.fwd) = fibRoute.fwd

\* whether evaluating toFibNextHop on a resolved route's forwardInfo throws
Throws(ribRoute) == ToFibNextHop(ribRoute.fwd) = Thrown


\* faulty variant: every call reports a deleted route, so a FIB is always
\* rebuilt
HasDeletedRoute_Always(ribF, fib) == TRUE

\* lines 110-116: a prior FIB prefix for which rib.exactMatch finds no entry
HasDeletedRoute(ribF, fib) ==
  \E p \in Prefix : fib[p] # Nil /\ ~ribF[p].present

\* lines 77-107: the loop over the RIB in prefix order. acc carries `updated`,
\* the container being built (prefix -> route node) and the heap of route
\* nodes; thrown is set when toFibNextHop throws and ends the loop.
RECURSIVE RibLoop(_, _, _, _)
RibLoop(ribF, fib, p, acc) ==
  IF p > MaxPrefix \/ acc.thrown
    THEN acc
    ELSE
      LET ribRoute == ribF[p]
          fibRoute == fib[p]
      IN IF ~ribRoute.present \/ ~ribRoute.resolved
           THEN RibLoop(ribF, fib, p + 1, acc)
           ELSE IF Throws(ribRoute)
             THEN [acc EXCEPT !.thrown = TRUE]
             ELSE IF fibRoute # Nil /\ ReusePriorRoute(ribRoute, acc.rnodes[fibRoute])
               THEN RibLoop(ribF, fib, p + 1, [acc EXCEPT !.entries[p] = fibRoute])
               ELSE
                 LET r == ToFibRoute(ribRoute, p, fibRoute, acc.rnodes)
                 IN RibLoop(ribF, fib, p + 1,
                            [updated |-> TRUE, thrown |-> FALSE,
                             entries |-> [acc.entries EXCEPT ![p] = r.id],
                             rnodes |-> r.rnodes])

\* createUpdatedFib: the id of a new FIB node, or Nil (nullptr) when nothing
\* was found to differ; a throw frees the nodes made so far. The DCHECK_EQ of
\* lines 118-126 compares the size of the container built by the loop with
\* the number of resolved RIB routes, which the loop makes equal.
CreateUpdatedFib(ribF, fibId, rnodes, fnodes) ==
  LET fib == fnodes[fibId]
      acc == RibLoop(ribF, fib, 1,
                     [updated |-> FALSE, thrown |-> FALSE,
                      entries |-> [p \in Prefix |-> Nil], rnodes |-> rnodes])
      updated == acc.updated \/ HasDeletedRoute(ribF, fib)
  IN IF acc.thrown
       THEN [thrown |-> TRUE, fib |-> Nil,
             rnodes |-> SubSeq(acc.rnodes, 1, Len(rnodes)), fnodes |-> fnodes]
       ELSE IF updated
         THEN [thrown |-> FALSE, fib |-> Len(fnodes) + 1,
               rnodes |-> acc.rnodes, fnodes |-> Append(fnodes, acc.entries)]
         ELSE [thrown |-> FALSE, fib |-> Nil,
               rnodes |-> acc.rnodes, fnodes |-> fnodes]

\* ForwardingInformationBaseContainer::modify(&state) on a published state:
\* the state root and the container are cloned, the clone replaces the
\* container in the new root, and the clone is what writableFields() writes
Modify(state, vrf, cnodes, sid) ==
  [state |-> [state EXCEPT !.id = sid, !.fibs[vrf] = Len(cnodes) + 1],
   cont |-> Len(cnodes) + 1,
   cnodes |-> Append(cnodes, cnodes[state.fibs[vrf]])]

\* operator()(state): "abort" is the failed CHECK, "throw" an exception that
\* leaves through the call, "ok" a returned state
Updater(vrf, state, ribs, rnodes, fnodes, cnodes, sid) ==
  LET previousFibContainer == state.fibs[vrf]
      same == [outcome |-> "ok", state |-> state,
               rnodes |-> rnodes, fnodes |-> fnodes, cnodes |-> cnodes]
  IN IF previousFibContainer = Nil
       THEN [same EXCEPT !.outcome = "abort"]
       ELSE
         LET v4 == CreateUpdatedFib(ribs["v4"], cnodes[previousFibContainer].fibV4,
                                    rnodes, fnodes)
         IN IF v4.thrown
              THEN [same EXCEPT !.outcome = "throw", !.rnodes = v4.rnodes]
              ELSE
                LET v6 == CreateUpdatedFib(ribs["v6"],
                                           cnodes[previousFibContainer].fibV6,
                                           v4.rnodes, v4.fnodes)
                IN IF v6.thrown
                     THEN [same EXCEPT !.outcome = "throw",
                                       !.rnodes = SubSeq(v6.rnodes, 1, Len(rnodes))]
                     ELSE IF v4.fib = Nil /\ v6.fib = Nil
                       THEN [same EXCEPT !.rnodes = v6.rnodes]
                       ELSE
                         LET m == Modify(state, vrf, cnodes, sid)
                             c4 == IF v4.fib # Nil
                                     THEN [m.cnodes EXCEPT ![m.cont].fibV4 = v4.fib]
                                     ELSE m.cnodes
                             c6 == IF v6.fib # Nil
                                     THEN [c4 EXCEPT ![m.cont].fibV6 = v6.fib]
                                     ELSE c4
                         IN [outcome |-> "ok", state |-> m.state,
                             rnodes |-> v6.rnodes, fnodes |-> v6.fnodes,
                             cnodes |-> c6]


(* ------------------------------------------------------------------------ *)
(* State                                                                    *)
(* ------------------------------------------------------------------------ *)
VARIABLES
  standaloneRib,   \* the agent's RIB mode: FIB containers or legacy route tables
  rib,             \* the RIB snapshot handed to the FIB updater
  cur,             \* the current (published) SwitchState root
  base,            \* the root the next StateDelta is taken from
  routeNodes,      \* heap of Route<AddrT> nodes: id -> fields
  fibNodes,        \* heap of ForwardingInformationBase nodes: id -> (prefix -> route)
  containerNodes,  \* heap of FIB containers / route tables: id -> (vrf, fibV4, fibV6)
  nextStateId,     \* identity of the next SwitchState root to be cloned
  last,            \* record of the most recent application of the FIB updater
  walked,          \* record of the most recent walk and the callbacks it made
  budget,          \* how many updater runs, RIB edits and other changes happened
  nbr,             \* a neighbor cache with one IP: its entry, timer and event loop
  lifetime         \* the configured base reachable-time and the last lifetime drawn

vars ==
  <<standaloneRib, rib, cur, base, routeNodes, fibNodes, containerNodes,
    nextStateId, last, walked, budget, nbr, lifetime>>

\* the state of the neighbor side, which the FIB side never touches
nbrVars == <<nbr, lifetime>>

\* the state of the FIB side, which the neighbor side never touches
fibVars ==
  <<standaloneRib, rib, cur, base, routeNodes, fibNodes, containerNodes,
    nextStateId, last, walked, budget>>

(* ------------------------------------------------------------------------ *)
(* StateDelta and the route walker forEachChangedRoute                      *)
(* ------------------------------------------------------------------------ *)
\* getFib<AddrT>() of a container, getRib<AddrT>()->routes() of a route table
FibOf(container, fam) == IF fam = "v4" THEN container.fibV4 ELSE container.fibV6

\* the per-VRF map a mode uses: getFibs() or getRouteTables()
TablesOf(isStandaloneRib, state) ==
  IF isStandaloneRib THEN state.fibs ELSE state.routeTables

\* NodeMapDelta over two VRF-keyed maps: one item per key whose nodes are not
\* the identical node, in increasing key order
RECURSIVE TablesDelta(_, _, _)
TablesDelta(oldMap, newMap, v) ==
  IF v > MaxVrf
    THEN <<>>
    ELSE (IF oldMap[v] = newMap[v]
            THEN <<>>
            ELSE <<[old |-> oldMap[v], new |-> newMap[v]]>>)
         \o TablesDelta(oldMap, newMap, v + 1)

\* the routes of a FIB node, or of no FIB at all (a null map in the delta)
RoutesOf(fibId) ==
  IF fibId = Nil THEN [p \in Prefix |-> Nil] ELSE fibNodes[fibId]

\* NodeMapDelta over two prefix-keyed FIBs, in increasing prefix order
RECURSIVE RoutesDelta(_, _, _)
RoutesDelta(oldRoutes, newRoutes, p) ==
  IF p > MaxPrefix
    THEN <<>>
    ELSE (IF oldRoutes[p] = newRoutes[p]
            THEN <<>>
            ELSE <<[old |-> oldRoutes[p], new |-> newRoutes[p]]>>)
         \o RoutesDelta(oldRoutes, newRoutes, p + 1)

\* fibContainerDelta.getFibDelta<AddrT>() / routeTableDelta.getRoutesDelta<AddrT>()
GetFibDelta(item, fam) ==
  RoutesDelta(
    RoutesOf(IF item.old = Nil THEN Nil ELSE FibOf(containerNodes[item.old], fam)),
    RoutesOf(IF item.new = Nil THEN Nil ELSE FibOf(containerNodes[item.new], fam)),
    1)

\* removeAll (lines 87-91): removedFn for every route of the old FIB, in order
RECURSIVE RemoveAll(_, _, _, _)
RemoveAll(rid, fam, routes, p) ==
  IF p > MaxPrefix
    THEN <<>>
    ELSE (IF routes[p] = Nil
            THEN <<>>
            ELSE <<[fn |-> "removed", rid |-> rid, fam |-> fam,
                    old |-> routes[p], new |-> Nil]>>)
         \o RemoveAll(rid, fam, routes, p + 1)

\* faulty variant: a missing new route is taken for an added one
OneCallback_AddedForRemoved(rid, fam, routeDelta) ==
  IF routeDelta.new = Nil \/ routeDelta.old = Nil
    THEN [fn |-> "added", rid |-> rid, fam |-> fam,
          old |-> routeDelta.old, new |-> routeDelta.new]
    ELSE [fn |-> "changed", rid |-> rid, fam |-> fam,
          old |-> routeDelta.old, new |-> routeDelta.new]

\* lines 94-103: the callback chosen for one item of the routes delta
OneCallback(rid, fam, routeDelta) ==
  IF routeDelta.old = Nil
    THEN [fn |-> "added", rid |-> rid, fam |-> fam,
          old |-> Nil, new |-> routeDelta.new]
    ELSE IF routeDelta.new = Nil
      THEN [fn |-> "removed", rid |-> rid, fam |-> fam,
            old |-> routeDelta.old, new |-> Nil]
      ELSE [fn |-> "changed", rid |-> rid, fam |-> fam,
            old |-> routeDelta.old, new |-> routeDelta.new]

\* processRoutesDelta (lines 92-105)
ProcessRoutesDelta(rid, fam, routesDelta) ==
  [i \in 1..Len(routesDelta) |-> OneCallback(rid, fam, routesDelta[i])]

\* faulty variant: a removed container is skipped without removeAll
ContainerCallbacks_NoRemoveAll(item, fam) ==
  IF item.new = Nil
    THEN <<>>
    ELSE ProcessRoutesDelta(containerNodes[item.new].vrf, fam,
                            GetFibDelta(item, fam))

\* the body of the loop over the container deltas (lines 107-118, 121-132)
ContainerCallbacks(item, fam) ==
  IF item.new = Nil
    THEN RemoveAll(containerNodes[item.old].vrf, fam,
                   RoutesOf(FibOf(containerNodes[item.old], fam)), 1)
    ELSE ProcessRoutesDelta(containerNodes[item.new].vrf, fam,
                            GetFibDelta(item, fam))

RECURSIVE WalkContainers(_, _, _)
WalkContainers(delta, fam, i) ==
  IF i > Len(delta)
    THEN <<>>
    ELSE ContainerCallbacks(delta[i], fam) \o WalkContainers(delta, fam, i + 1)

\* every container of the new state, as if each were new
AllContainers(isStandaloneRib, new) ==
  TablesDelta([v \in Vrf |-> Nil], TablesOf(isStandaloneRib, new), 1)

\* faulty variant: every container of the new state is walked, not the delta
ForEachChangedRouteOf_All(isStandaloneRib, old, new, fam) ==
  WalkContainers(AllContainers(isStandaloneRib, new), fam, 1)

\* forEachChangedRoute<AddrT> (lines 80-134): the callbacks, in the order made
ForEachChangedRouteOf(isStandaloneRib, old, new, fam) ==
  WalkContainers(
    TablesDelta(TablesOf(isStandaloneRib, old), TablesOf(isStandaloneRib, new), 1),
    fam, 1)

\* faulty variant: the IPv6 pass runs first
ForEachChangedRoute_V6First(isStandaloneRib, old, new) ==
  ForEachChangedRouteOf(isStandaloneRib, old, new, "v6")
    \o ForEachChangedRouteOf(isStandaloneRib, old, new, "v4")

\* the untyped forEachChangedRoute (lines 141-152): IPv4, then IPv6
ForEachChangedRoute(isStandaloneRib, old, new) ==
  ForEachChangedRouteOf(isStandaloneRib, old, new, "v4")
    \o ForEachChangedRouteOf(isStandaloneRib, old, new, "v6")

\* faulty variant: the walk goes on after a callback has raised
Invoke_Continue(calls, throwAt, i) ==
  [invoked |-> SubSeq(calls, i, Len(calls)), threw |-> throwAt \in i..Len(calls)]

\* the callbacks run one after the other inside the walker's loops, which
\* hold no try block: the invocation numbered throwAt raises, the error
\* leaves every loop and both passes, and nothing after it is invoked
RECURSIVE Invoke(_, _, _)
Invoke(calls, throwAt, i) ==
  IF i > Len(calls)
    THEN [invoked |-> <<>>, threw |-> FALSE]
    ELSE IF i = throwAt
      THEN [invoked |-> <<calls[i]>>, threw |-> TRUE]
      ELSE LET rest == Invoke(calls, throwAt, i + 1)
           IN [invoked |-> <<calls[i]>> \o rest.invoked, threw |-> rest.threw]

(* ------------------------------------------------------------------------ *)
(* NeighborCacheEntry: one entry of a neighbor cache, its AsyncTimeout and   *)
(* the scheduling tasks it posts to the event loop                          *)
(* ------------------------------------------------------------------------ *)
\* enum class NeighborEntryState
NeighborEntryState ==
  {"UNINITIALIZED", "INCOMPLETE", "DELAY", "PROBE", "STALE", "REACHABLE",
   "EXPIRED"}

\* probesLeft_ is a uint8_t: values are kept modulo 2^8
Uint8 == 256

\* the values of the cache's maxNeighborProbes setting that are explored:
\* none, a few, and one that does not fit probesLeft_
MaxProbesValues == {0, 1, 2, 3, 257}

\* the MAC of an entry that has none
ZeroMac == 0

\* EntryFields(ip, intf, ignored): the fields of a pending entry
PendingFields == [mac |-> ZeroMac, port |-> 0, intf |-> 1, pending |-> TRUE]

\* EntryFields(ip, mac, port, intf): the fields of a resolved neighbor
ResolvedFields ==
  {[mac |-> m, port |-> 1, intf |-> 1, pending |-> FALSE] : m \in {1}}

EntryFields == ResolvedFields \cup {PendingFields}

\* the timeouts scheduleNextUpdate can arm, and no timeout at all
TimerKinds == {"lifetime", "stale", "probe"}
NoTimer == "none"

\* an entry object before its constructor body has run (member initialisers
\* of lines 89-93, 363): sent, queried and posted count what one call does,
\* and calls holds the methods of the cache (cache_->...) the call invoked
NewEntry(fields, maxProbes) ==
  [fields |-> fields, state |-> "UNINITIALIZED",
   probesLeft |-> maxProbes % Uint8, timer |-> NoTimer,
   sent |-> 0, queried |-> 0, posted |-> 0, threw |-> FALSE,
   calls |-> {"getMaxNeighborProbes"}]

hasProbesLeft(e) == e.probesLeft > 0

isProbing(e) == e.state = "PROBE" \/ e.state = "INCOMPLETE"

\* faulty variant: an entry without probes left falls back to STALE
probeIfProbesLeft_BackToStale(e) ==
  IF e.probesLeft > 0
    THEN [e EXCEPT !.sent = @ + 1, !.probesLeft = (@ - 1) % Uint8,
                   !.calls = @ \cup {"probeFor"}]
    ELSE [e EXCEPT !.state = "STALE"]

\* faulty variant: an entry without probes left flushes itself from the cache
probeIfProbesLeft_FlushSelf(e) ==
  IF e.probesLeft > 0
    THEN [e EXCEPT !.sent = @ + 1, !.probesLeft = (@ - 1) % Uint8,
                   !.calls = @ \cup {"probeFor"}]
    ELSE [e EXCEPT !.state = "EXPIRED", !.calls = @ \cup {"flush"}]

\* probeIfProbesLeft (lines 288-296): cache_->probeFor, then --probesLeft_
probeIfProbesLeft(e) ==
  IF hasProbesLeft(e)
    THEN [e EXCEPT !.sent = @ + 1, !.probesLeft = (@ - 1) % Uint8,
                   !.calls = @ \cup {"probeFor"}]
    ELSE [e EXCEPT !.state = "EXPIRED"]

\* faulty variant: the hit bit is read but a stale entry is never probed
probeStaleEntryIfHit_Never(e, hit) ==
  [e EXCEPT !.queried = @ + 1, !.calls = @ \cup {"isHit"}]

\* faulty variant: a stale entry that is not in use loses a probe at each run
\* of the state machine and expires once it has none
probeStaleEntryIfHit_Ages(e, hit) ==
  LET q == [e EXCEPT !.queried = @ + 1, !.calls = @ \cup {"isHit"}]
  IN IF hit
       THEN probeIfProbesLeft([q EXCEPT !.state = "PROBE"])
       ELSE IF q.probesLeft > 0
              THEN [q EXCEPT !.probesLeft = @ - 1]
              ELSE [q EXCEPT !.state = "EXPIRED"]

\* probeStaleEntryIfHit (lines 298-304): hit is what cache_->isHit answers
probeStaleEntryIfHit(e, hit) ==
  LET q == [e EXCEPT !.queried = @ + 1, !.calls = @ \cup {"isHit"}]
  IN IF hit THEN probeIfProbesLeft([q EXCEPT !.state = "PROBE"]) ELSE q

\* faulty variant: a REACHABLE entry only becomes STALE, the hit bit is not read
runStateMachine_StaleOnly(e, hit) ==
  CASE e.state \in {"INCOMPLETE", "PROBE"} -> probeIfProbesLeft(e)
    [] e.state = "STALE" -> probeStaleEntryIfHit(e, hit)
    [] e.state = "REACHABLE" -> [e EXCEPT !.state = "STALE"]
    [] OTHER -> [e EXCEPT !.threw = TRUE]

\* runStateMachine (lines 306-330)
runStateMachine(e, hit) ==
  CASE e.state \in {"INCOMPLETE", "PROBE"} -> probeIfProbesLeft(e)
    [] e.state = "STALE" -> probeStaleEntryIfHit(e, hit)
    [] e.state = "REACHABLE" ->
         probeStaleEntryIfHit([e EXCEPT !.state = "STALE"], hit)
    [] OTHER -> [e EXCEPT !.threw = TRUE]

\* scheduleNextUpdate (lines 212-235); AsyncTimeout::scheduleTimeout replaces
\* a timeout that is already scheduled
scheduleNextUpdate(e) ==
  CASE e.state = "REACHABLE" ->
         [e EXCEPT !.timer = "lifetime", !.calls = @ \cup {"getBaseTimeout"}]
    [] e.state = "STALE" ->
         [e EXCEPT !.timer = "stale",
                   !.calls = @ \cup {"getStaleEntryInterval"}]
    [] e.state \in {"PROBE", "INCOMPLETE"} -> [e EXCEPT !.timer = "probe"]
    [] e.state = "EXPIRED" -> e
    [] OTHER -> [e EXCEPT !.threw = TRUE]

\* faulty variant: a pending entry is created with all its probes left
enter_FullProbes(e, state, hit, maxProbes) ==
  LET s == [e EXCEPT !.state = state, !.calls = @ \cup {"getMaxNeighborProbes"}]
  IN CASE state \in {"INCOMPLETE", "REACHABLE"} ->
            [s EXCEPT !.probesLeft = maxProbes % Uint8, !.posted = @ + 1]
       [] state = "STALE" ->
            LET r == runStateMachine([s EXCEPT !.probesLeft = maxProbes % Uint8],
                                     hit)
            IN [r EXCEPT !.posted = @ + 1]
       [] OTHER -> [s EXCEPT !.threw = TRUE]

\* enter (lines 260-286): state_ is written first; the invalid states throw
\* after that and post nothing; the others post one scheduling task
enter(e, state, hit, maxProbes) ==
  LET s == [e EXCEPT !.state = state]
      m == [s EXCEPT !.calls = @ \cup {"getMaxNeighborProbes"}]
  IN CASE state = "INCOMPLETE" ->
            [m EXCEPT !.probesLeft = (maxProbes - 1) % Uint8, !.posted = @ + 1]
       [] state = "REACHABLE" ->
            [m EXCEPT !.probesLeft = maxProbes % Uint8, !.posted = @ + 1]
       [] state = "STALE" ->
            LET r == runStateMachine([m EXCEPT !.probesLeft = maxProbes % Uint8],
                                     hit)
            IN [r EXCEPT !.posted = @ + 1]
       [] OTHER -> [s EXCEPT !.threw = TRUE]

\* faulty variant: the state machine runs whether or not a timeout is scheduled
process_Always(e, hit) ==
  LET r == runStateMachine(e, hit)
  IN IF r.threw \/ r.state = "EXPIRED" THEN r ELSE scheduleNextUpdate(r)

\* faulty variant: the state machine runs but the next update is not scheduled
process_RunOnly(e, hit) ==
  IF e.timer # NoTimer THEN e ELSE runStateMachine(e, hit)

\* process (lines 122-136)
process(e, hit) ==
  IF e.timer # NoTimer
    THEN e
    ELSE LET r == runStateMachine(e, hit)
         IN IF r.threw \/ r.state = "EXPIRED" THEN r ELSE scheduleNextUpdate(r)

\* updateFields (lines 168-170)
updateFields(e, fields) == [e EXCEPT !.fields = fields]

\* updateState (lines 184-186)
updateState(e, state, hit, maxProbes) == enter(e, state, hit, maxProbes)

\* setPending (lines 188-190)
setPending(e, hit, maxProbes) == enter(e, "STALE", hit, maxProbes)

\* the start of a call on an entry: nothing sent, queried, posted or thrown
\* yet, and no method of the cache called
Called(e) ==
  [e EXCEPT !.sent = 0, !.queried = 0, !.posted = 0, !.threw = FALSE,
            !.calls = {}]

\* std::chrono::seconds to milliseconds (line 246)
MsPerSecond == 1000

\* rand32 takes a uint32_t: the width is scaled down to 11 bits so that a
\* base timeout of a few seconds already exceeds it
Uint32 == 2048

\* folly::Random::rand32(max): 0 when max is 0, else any value in [0, max)
rand32(max) == IF max = 0 THEN {0} ELSE 0..(max - 1)

\* faulty variant: the draw is added to the whole base
calculateLifetime_FromBase(baseTimeout) ==
  LET b == baseTimeout * MsPerSecond
  IN {r + b : r \in rand32(b % Uint32)}

\* calculateLifetime (lines 245-249): every value it can return, in ms; the
\* 64-bit base is narrowed to uint32_t where it is passed to rand32
calculateLifetime(baseTimeout) ==
  LET b == baseTimeout * MsPerSecond
  IN {r + (b \div 2) : r \in rand32(b % Uint32)}

(* ------------------------------------------------------------------------ *)
(* The state machine                                                        *)
(* ------------------------------------------------------------------------ *)
\* the content reachable from a state's container of one VRF: the container
\* node, its two FIB nodes and every route node in them
ViewOf(state, vrf, rnodes, fnodes, cnodes) ==
  LET c == state.fibs[vrf]
  IN IF c = Nil
       THEN <<>>
       ELSE <<[cont |-> c,
               node |-> cnodes[c],
               fibs |-> [f \in FamilySet |-> fnodes[FibOf(cnodes[c], f)]],
               routes |-> [f \in FamilySet |->
                            [p \in Prefix |->
                              LET r == fnodes[FibOf(cnodes[c], f)][p]
                              IN IF r = Nil THEN <<>> ELSE <<rnodes[r]>>]]]>>

EmptyState == [id |-> 1, fibs |-> [v \in Vrf |-> Nil],
               routeTables |-> [v \in Vrf |-> Nil]]

NoApply ==
  [vrf |-> 1, inState |-> EmptyState, outState |-> EmptyState,
   outcome |-> "none", rib |-> EmptyRib, inView |-> <<>>, nRoutes |-> 0,
   repeat |-> FALSE]

NoWalk ==
  [done |-> FALSE, isStandaloneRib |-> TRUE, old |-> EmptyState,
   new |-> EmptyState, calls |-> <<>>, invoked |-> <<>>, threw |-> FALSE,
   throwAt |-> 0]

\* no call on the neighbor entry yet
NoNbrCall(maxProbes) ==
  [op |-> "none", arg |-> "none", hit |-> FALSE, failed |-> FALSE,
   threw |-> FALSE, wasInCache |-> FALSE,
   pre |-> NewEntry(PendingFields, maxProbes)]

\* a neighbor cache that holds no entry, and an idle event loop; armedAfter
\* says that the timer was armed after the last call of enter(), tickedAfter
\* that such a timer has fired; fresh that the entry was created INCOMPLETE,
\* was not called from outside since, and had every solicitation sent;
\* published that a neighbor-removed event was published for the entry;
\* cancelPosted that the task of destroy() waits on the event loop, released
\* that it has run and dropped the last reference; cacheGone that the cache
\* itself was destroyed; lateTick that a timeout of the entry expired after
\* its destruction was requested; lock is the thread that holds the cache's
\* mutex, at where each thread stands with respect to it, pendingOp the call
\* the caller thread is making, held the methods of the cache the entry
\* called during the last critical section and heldBy the thread of that
\* section
NbrStart(maxProbes) ==
  [maxProbes |-> maxProbes, entry |-> NewEntry(PendingFields, maxProbes),
   inCache |-> FALSE, queue |-> 0, crashed |-> FALSE, ops |-> 0,
   ticks |-> 0, probes |-> 0, fresh |-> FALSE, agreed |-> TRUE,
   armedAfter |-> FALSE, tickedAfter |-> FALSE,
   published |-> FALSE, cancelPosted |-> FALSE, released |-> FALSE,
   cacheGone |-> FALSE, lateTick |-> FALSE,
   lock |-> "free", at |-> [evb |-> "idle", caller |-> "idle"],
   pendingOp |-> "none", held |-> {}, heldBy |-> "none",
   lastExt |-> "none", last |-> NoNbrCall(maxProbes)]

\* a configured base reachable-time and no lifetime drawn yet
NoDraw(baseTimeout) == [base |-> baseTimeout, drawn |-> FALSE, value |-> 0]

\* the FIB side after construction: no VRF, an empty RIB snapshot, empty heaps
FibStart(modes) ==
  /\ standaloneRib \in modes
  /\ rib = EmptyRib
  /\ cur = EmptyState
  /\ base = EmptyState
  /\ routeNodes = <<>>
  /\ fibNodes = <<>>
  /\ containerNodes = <<>>
  /\ nextStateId = 2
  /\ last = NoApply
  /\ walked = NoWalk
  /\ budget = [apply |-> 0, edits |-> 0, env |-> 0, changes |-> 0]

\* the state after construction, with the neighbor side at its defaults
InitWith(modes) ==
  /\ FibStart(modes)
  /\ nbr = NbrStart(3)
  /\ lifetime = NoDraw(0)

\* the agent with the standalone RIB, whose FIBs the updater writes
Init == InitWith({TRUE})

\* the agent in either RIB mode, as the walker sees it
WalkInit == InitWith(BOOLEAN)

\* the agent is gone once a CHECK has failed
Running == last.outcome # "abort"

\* a new root that differs from `state` in the container of one VRF
WithTable(state, v, c) ==
  IF standaloneRib
    THEN [state EXCEPT !.id = nextStateId, !.fibs[v] = c]
    ELSE [state EXCEPT !.id = nextStateId, !.routeTables[v] = c]

\* a RIB batch changed one route of the snapshot (added, replaced,
\* re-resolved, or deleted)
RibEdit(fam, p, r) ==
  /\ Running
  /\ standaloneRib
  /\ budget.edits < MaxEdits
  /\ r # rib[fam][p]
  /\ rib' = [rib EXCEPT ![fam][p] = r]
  /\ budget' = [budget EXCEPT !.edits = @ + 1]
  /\ UNCHANGED <<standaloneRib, cur, base, routeNodes, fibNodes, containerNodes,
                 nextStateId, last, walked>>
  /\ UNCHANGED nbrVars

\* the FIB updater runs as a state update on the current state
Apply(vrf) ==
  /\ Running
  /\ standaloneRib
  /\ budget.apply < MaxApply
  /\ LET r == Updater(vrf, cur, rib, routeNodes, fibNodes, containerNodes,
                      nextStateId)
     IN /\ cur' = r.state
        /\ routeNodes' = r.rnodes
        /\ fibNodes' = r.fnodes
        /\ containerNodes' = r.cnodes
        /\ nextStateId' = IF r.state.id = nextStateId
                            THEN nextStateId + 1 ELSE nextStateId
        /\ last' = [vrf |-> vrf, inState |-> cur,
                    outState |-> r.state, outcome |-> r.outcome, rib |-> rib,
                    inView |-> ViewOf(cur, vrf, routeNodes, fibNodes,
                                      containerNodes),
                    nRoutes |-> Len(routeNodes),
                    repeat |-> /\ last.outcome = "ok"
                               /\ last.outState = cur
                               /\ last.vrf = vrf
                               /\ last.rib = rib]
  /\ budget' = [budget EXCEPT !.apply = @ + 1]
  /\ UNCHANGED <<standaloneRib, rib, base, walked>>
  /\ UNCHANGED nbrVars

\* a VRF is configured: a container with two empty FIBs enters the state
AddVrf(v) ==
  /\ Running
  /\ budget.env < MaxEnv
  /\ TablesOf(standaloneRib, cur)[v] = Nil
  /\ fibNodes' = fibNodes \o <<[p \in Prefix |-> Nil], [p \in Prefix |-> Nil]>>
  /\ containerNodes' = Append(containerNodes,
                              [vrf |-> v, fibV4 |-> Len(fibNodes) + 1,
                               fibV6 |-> Len(fibNodes) + 2])
  /\ cur' = WithTable(cur, v, Len(containerNodes) + 1)
  /\ nextStateId' = nextStateId + 1
  /\ budget' = [budget EXCEPT !.env = @ + 1]
  /\ UNCHANGED <<standaloneRib, rib, base, routeNodes, last, walked>>
  /\ UNCHANGED nbrVars

\* a VRF is unconfigured: its container leaves the state
RemoveVrf(v) ==
  /\ Running
  /\ budget.env < MaxEnv
  /\ TablesOf(standaloneRib, cur)[v] # Nil
  /\ cur' = WithTable(cur, v, Nil)
  /\ nextStateId' = nextStateId + 1
  /\ budget' = [budget EXCEPT !.env = @ + 1]
  /\ UNCHANGED <<standaloneRib, rib, base, routeNodes, fibNodes, containerNodes,
                 last, walked>>
  /\ UNCHANGED nbrVars

\* some producer of states replaces, adds or removes one route of a VRF's
\* FIB (or legacy route table), copy-on-write along the path (route, routes
\* map, container, root)
RouteUpdate(v, fam, p, present) ==
  /\ Running
  /\ budget.changes < MaxChanges
  /\ TablesOf(standaloneRib, cur)[v] # Nil
  /\ LET table == containerNodes[TablesOf(standaloneRib, cur)[v]]
         routes == fibNodes[FibOf(table, fam)]
         route == IF present THEN Len(routeNodes) + 1 ELSE Nil
     IN /\ present \/ routes[p] # Nil
        /\ routeNodes' = IF present
                           THEN Append(routeNodes, NewRoute(p)) ELSE routeNodes
        /\ fibNodes' = Append(fibNodes, [routes EXCEPT ![p] = route])
        /\ containerNodes' =
             Append(containerNodes,
                    IF fam = "v4"
                      THEN [table EXCEPT !.fibV4 = Len(fibNodes) + 1]
                      ELSE [table EXCEPT !.fibV6 = Len(fibNodes) + 1])
        /\ cur' = WithTable(cur, v, Len(containerNodes) + 1)
  /\ nextStateId' = nextStateId + 1
  /\ budget' = [budget EXCEPT !.changes = @ + 1]
  /\ UNCHANGED <<standaloneRib, rib, base, last, walked>>
  /\ UNCHANGED nbrVars

\* the accumulated update is applied: observers walk StateDelta(base, cur)
Walk(isStandaloneRib) ==
  /\ Running
  /\ walked' = [done |-> TRUE, isStandaloneRib |-> isStandaloneRib,
                old |-> base, new |-> cur,
                calls |-> ForEachChangedRoute(isStandaloneRib, base, cur),
                invoked |-> ForEachChangedRoute(isStandaloneRib, base, cur),
                threw |-> FALSE, throwAt |-> 0]
  /\ base' = cur
  /\ UNCHANGED <<standaloneRib, rib, cur, routeNodes, fibNodes, containerNodes,
                 nextStateId, last, budget>>
  /\ UNCHANGED nbrVars

\* the same walk by an observer whose callback raises an error at its
\* invocation numbered throwAt (if the walk gets that far); walked.throwAt
\* is the invocation that did raise, 0 if none did
WalkThrowing(isStandaloneRib, throwAt) ==
  /\ Running
  /\ LET calls == ForEachChangedRoute(isStandaloneRib, base, cur)
         run == Invoke(calls, throwAt, 1)
     IN walked' = [done |-> TRUE, isStandaloneRib |-> isStandaloneRib,
                   old |-> base, new |-> cur, calls |-> calls,
                   invoked |-> run.invoked, threw |-> run.threw,
                   throwAt |-> IF run.threw THEN throwAt ELSE 0]
  /\ base' = cur
  /\ UNCHANGED <<standaloneRib, rib, cur, routeNodes, fibNodes, containerNodes,
                 nextStateId, last, budget>>
  /\ UNCHANGED nbrVars

\* the updater and what feeds it
Next ==
  \/ \E fam \in FamilySet, p \in Prefix, r \in RibRoutes \cup {NoRoute} :
       RibEdit(fam, p, r)
  \/ \E v \in Vrf : Apply(v)
  \/ \E v \in Vrf : AddVrf(v)
  \/ \E v \in Vrf : RemoveVrf(v)

Spec == Init /\ [][Next]_vars

\* the walker over the deltas of states that change route by route
WalkNext ==
  \/ \E v \in Vrf : AddVrf(v)
  \/ \E v \in Vrf : RemoveVrf(v)
  \/ \E v \in Vrf, fam \in FamilySet, p \in Prefix, present \in BOOLEAN :
       RouteUpdate(v, fam, p, present)
  \/ \E isStandaloneRib \in BOOLEAN : Walk(isStandaloneRib)

WalkSpec == WalkInit /\ [][WalkNext]_vars

\* the walker driven by observers whose callbacks may raise
ThrowNext ==
  \/ \E v \in Vrf : AddVrf(v)
  \/ \E v \in Vrf : RemoveVrf(v)
  \/ \E v \in Vrf, fam \in FamilySet, p \in Prefix, present \in BOOLEAN :
       RouteUpdate(v, fam, p, present)
  \/ \E isStandaloneRib \in BOOLEAN, throwAt \in 1..MaxThrowAt :
       WalkThrowing(isStandaloneRib, throwAt)

ThrowSpec == WalkInit /\ [][ThrowNext]_vars


(* ------------------------------------------------------------------------ *)
(* The neighbor cache entry, its timer and the event loop                   *)
(* ------------------------------------------------------------------------ *)
\* fields and a state that suit each other: a pending entry is INCOMPLETE,
\* a resolved one carries a MAC
Agree(fields, state) ==
  /\ state = "INCOMPLETE" => fields.pending
  /\ state \in {"STALE", "PROBE", "REACHABLE"} =>
       ~fields.pending /\ fields.mac # ZeroMac

\* what is remembered of a call on the entry; in the actions below hit is
\* an input only of a call that reads the hit bit, sendOk only of a call
\* that asks for a solicitation, and caught only of a call that throws.
\* probeFor(ip) of the cache hands one solicitation to packet I/O; a send
\* that fails is logged and counted there and probeFor returns as usual, so
\* sent (and nbr.probes) count the solicitations asked for and failed says
\* that the one of this call did not leave
NbrCall(op, arg, hit, sendOk, r) ==
  [op |-> op, arg |-> arg, hit |-> hit /\ r.queried > 0,
   failed |-> ~sendOk /\ r.sent > 0, threw |-> r.threw,
   wasInCache |-> nbr.inCache, pre |-> nbr.entry]

NbrRunning == ~nbr.crashed

\* the cache can take a new entry for the IP: it holds none, and nothing of
\* a former entry is left on the event loop
NbrVacant == ~nbr.inCache /\ nbr.queue = 0 /\ ~nbr.cancelPosted /\ ~nbr.cacheGone

\* the cache creates the entry of an IP it has just solicited
\* (the constructor of lines 107-113)
NbrCreatePending ==
  /\ NbrRunning
  /\ nbr.ops < MaxNbrOps
  /\ NbrVacant
  /\ LET r == enter(NewEntry(PendingFields, nbr.maxProbes), "INCOMPLETE",
                    FALSE, nbr.maxProbes)
     IN nbr' = [nbr EXCEPT !.entry = r, !.inCache = TRUE, !.queue = r.posted,
                           !.ops = @ + 1, !.ticks = 0, !.armedAfter = FALSE,
                           !.tickedAfter = FALSE, !.probes = 0,
                           !.published = FALSE, !.released = FALSE,
                           !.lateTick = FALSE,
                           !.fresh = TRUE, !.lastExt = "createPending",
                           !.last = NbrCall("createPending", "INCOMPLETE",
                                            FALSE, TRUE, r)]
  /\ UNCHANGED <<fibVars, lifetime>>

\* the cache creates an entry from given fields in a given state (the
\* constructors of lines 85-105); a constructor that throws leaves no entry
NbrCreate(fields, state, hit, sendOk, caught) ==
  /\ NbrRunning
  /\ nbr.ops < MaxNbrOps
  /\ NbrVacant
  /\ LET r == enter(NewEntry(fields, nbr.maxProbes), state, hit, nbr.maxProbes)
     IN /\ hit => r.queried > 0
        /\ sendOk \/ r.sent > 0
        /\ caught \/ r.threw
        /\ nbr' = IF r.threw
                    THEN [nbr EXCEPT !.ops = @ + 1, !.crashed = ~caught,
                                     !.last = NbrCall("create", state, hit,
                                                      sendOk, r)]
                    ELSE [nbr EXCEPT !.entry = r, !.inCache = TRUE,
                                     !.queue = r.posted, !.ops = @ + 1,
                                     !.ticks = 0, !.armedAfter = FALSE,
                                     !.tickedAfter = FALSE,
                                     !.probes = r.sent,
                                     !.published = FALSE, !.released = FALSE,
                                     !.lateTick = FALSE,
                                     !.fresh = (state = "INCOMPLETE"),
                                     !.agreed = @ /\ Agree(fields, state),
                                     !.lastExt = "create",
                                     !.last = NbrCall("create", state, hit,
                                                      sendOk, r)]
  /\ UNCHANGED <<fibVars, lifetime>>

\* an advertisement with a valid MAC arrives for the entry: the cache stores
\* the fields and drives the entry to REACHABLE
NbrExternalUpdate(fields) ==
  /\ NbrRunning
  /\ nbr.ops < MaxNbrOps
  /\ nbr.inCache
  /\ nbr.entry.state # "EXPIRED"
  /\ LET r == updateState(updateFields(Called(nbr.entry), fields), "REACHABLE",
                          FALSE, nbr.maxProbes)
     IN nbr' = [nbr EXCEPT !.entry = r, !.queue = @ + r.posted, !.ops = @ + 1,
                           !.ticks = 0, !.armedAfter = FALSE,
                           !.tickedAfter = FALSE, !.probes = 0, !.fresh = FALSE,
                           !.lastExt = "externalUpdate",
                           !.last = NbrCall("externalUpdate", "REACHABLE",
                                            FALSE, TRUE, r)]
  /\ UNCHANGED <<fibVars, lifetime>>

\* updateFields called on the entry
NbrUpdateFields(fields) ==
  /\ NbrRunning
  /\ nbr.ops < MaxNbrOps
  /\ nbr.inCache
  /\ fields # nbr.entry.fields
  /\ LET r == updateFields(Called(nbr.entry), fields)
     IN nbr' = [nbr EXCEPT !.entry = r, !.ops = @ + 1, !.fresh = FALSE,
                           !.agreed = @ /\ Agree(fields, r.state),
                           !.lastExt = "updateFields",
                           !.last = NbrCall("updateFields", "none", FALSE,
                                            TRUE, r)]
  /\ UNCHANGED <<fibVars, lifetime>>

\* updateState called on the entry; the error it may raise is either caught
\* by the caller or ends the agent
NbrUpdateState(state, hit, sendOk, caught) ==
  /\ NbrRunning
  /\ nbr.ops < MaxNbrOps
  /\ nbr.inCache
  /\ LET r == updateState(Called(nbr.entry), state, hit, nbr.maxProbes)
     IN /\ hit => r.queried > 0
        /\ sendOk \/ r.sent > 0
        /\ caught \/ r.threw
        /\ nbr' = [nbr EXCEPT !.entry = r, !.queue = @ + r.posted,
                              !.ops = @ + 1,
                              !.ticks = 0, !.armedAfter = FALSE,
                              !.tickedAfter = FALSE,
                              !.probes = r.sent,
                              !.fresh = FALSE,
                              !.agreed = @ /\ Agree(r.fields, state),
                              !.crashed = r.threw /\ ~caught,
                              !.lastExt = "updateState",
                              !.last = NbrCall("updateState", state, hit,
                                               sendOk, r)]
  /\ UNCHANGED <<fibVars, lifetime>>

\* setPending called on the entry
NbrSetPending(hit, sendOk) ==
  /\ NbrRunning
  /\ nbr.ops < MaxNbrOps
  /\ nbr.inCache
  /\ LET r == setPending(Called(nbr.entry), hit, nbr.maxProbes)
     IN /\ sendOk \/ r.sent > 0
        /\ nbr' = [nbr EXCEPT !.entry = r, !.queue = @ + r.posted,
                              !.ops = @ + 1,
                              !.ticks = 0, !.armedAfter = FALSE,
                              !.tickedAfter = FALSE,
                              !.probes = r.sent,
                              !.fresh = FALSE,
                              !.agreed = @ /\ Agree(r.fields, "STALE"),
                              !.lastExt = "setPending",
                              !.last = NbrCall("setPending", "STALE", hit,
                                               sendOk, r)]
  /\ UNCHANGED <<fibVars, lifetime>>

\* the event loop runs the oldest scheduling task an enter() has posted
\* (lines 283-285); an error leaving the task ends the agent. The task reads
\* the stale interval or the base timeout through cache_: once the cache is
\* destroyed that is a read through a dangling pointer, which may end the
\* agent or go unnoticed
NbrRunPosted(fault) ==
  /\ NbrRunning
  /\ nbr.queue > 0
  /\ LET r == scheduleNextUpdate(Called(nbr.entry))
     IN /\ fault => (nbr.cacheGone /\ r.state \in {"REACHABLE", "STALE"})
        /\ nbr' = [nbr EXCEPT !.entry = r, !.queue = @ - 1,
                              !.crashed = r.threw \/ fault,
                              !.armedAfter =
                                 @ \/ (~r.threw /\ r.state # "EXPIRED"),
                              !.last = NbrCall("runPosted", "none", FALSE,
                                               TRUE, r)]
  /\ UNCHANGED <<fibVars, lifetime>>

\* destroy (lines 138-142): a task that holds the shared reference to the
\* entry is posted to the event loop; the caller's reference goes away
destroy(c) == [c EXCEPT !.inCache = FALSE, !.cancelPosted = TRUE]

\* processEntry(ip) of the cache: the entry is processed and, once EXPIRED,
\* removed from the cache and destroyed, and a neighbor-removed event is
\* published
processEntry(c, hit) ==
  LET r == process(Called(c.entry), hit)
      p == [c EXCEPT !.entry = r]
  IN IF ~r.threw /\ r.state = "EXPIRED"
       THEN [destroy(p) EXCEPT !.published = TRUE]
       ELSE p

\* the entry's timeout expires (timeoutExpired, lines 203-205): it is no
\* longer scheduled and the cache processes the entry; timeoutExpired is
\* noexcept, so an error ends the agent
NbrTick(hit, sendOk) ==
  /\ NbrRunning
  /\ nbr.inCache
  /\ nbr.entry.timer # NoTimer
  /\ LET c == processEntry([nbr EXCEPT !.entry.timer = NoTimer], hit)
     IN /\ hit => c.entry.queried > 0
        /\ sendOk \/ c.entry.sent > 0
        /\ nbr' = [c EXCEPT !.crashed = c.entry.threw,
                            !.ticks = IF isProbing(nbr.entry) THEN @ + 1 ELSE 0,
                            !.probes = @ + c.entry.sent,
                            !.fresh = @ /\ sendOk,
                            !.tickedAfter = @ \/ nbr.armedAfter,
                            !.armedAfter = TRUE,
                            !.last = NbrCall("tick", "none", hit, sendOk,
                                             c.entry)]
  /\ UNCHANGED <<fibVars, lifetime>>

\* the cache processes the entry on the event loop thread without its
\* timeout having expired (process() is the public entry point, lines
\* 117-136); the error it may raise is either caught or ends the agent
NbrProcess(hit, sendOk, caught) ==
  /\ NbrRunning
  /\ nbr.ops < MaxNbrOps
  /\ nbr.inCache
  /\ LET c == processEntry(nbr, hit)
     IN /\ hit => c.entry.queried > 0
        /\ sendOk \/ c.entry.sent > 0
        /\ caught \/ c.entry.threw
        /\ nbr' = [c EXCEPT !.ops = @ + 1,
                            !.crashed = c.entry.threw /\ ~caught,
                            !.ticks = 0,
                            !.probes = c.entry.sent,
                            !.fresh = FALSE,
                            !.lastExt = "process",
                            !.last = NbrCall("process", "none", hit, sendOk,
                                             c.entry)]
  /\ UNCHANGED <<fibVars, lifetime>>

\* the ways an entry leaves the cache from outside: flush(ip) of a cache
\* that lives on, and the deletion of the VLAN, which destroys the cache and
\* with it every entry
DestroyKinds == {"flush", "vlanDeleted"}

\* the cache drops the entry and destroys it
NbrFlush(kind) ==
  /\ NbrRunning
  /\ nbr.ops < MaxNbrOps
  /\ nbr.inCache
  /\ LET c == destroy(nbr)
     IN nbr' = [c EXCEPT !.ops = @ + 1, !.fresh = FALSE,
                         !.cacheGone = (kind = "vlanDeleted"),
                         !.lastExt = kind,
                         !.last = NbrCall(kind, "none", FALSE, TRUE,
                                          Called(nbr.entry))]
  /\ UNCHANGED <<fibVars, lifetime>>

\* the event loop runs the task of destroy() (lines 139-141) once the tasks
\* posted before it have run: the timeout is cancelled, then the task and
\* the reference it holds go away and the entry's memory is released
NbrRunCancel ==
  /\ NbrRunning
  /\ nbr.cancelPosted
  /\ nbr.queue = 0
  /\ nbr' = [nbr EXCEPT !.entry.timer = NoTimer, !.cancelPosted = FALSE,
                        !.released = TRUE,
                        !.last = NbrCall("runCancel", "none", FALSE, TRUE,
                                         Called(nbr.entry))]
  /\ UNCHANGED <<fibVars, lifetime>>

\* the timeout of an entry expires after destroy() was called for it and
\* before the event loop has run the task that cancels it: timeoutExpired
\* calls cache_->processEntry(ip). A cache that lives on holds no entry for
\* the IP and does nothing; a destroyed cache is reached through a dangling
\* pointer, which may end the agent or go unnoticed
NbrLateTick(fault) ==
  /\ NbrRunning
  /\ ~nbr.inCache
  /\ nbr.cancelPosted
  /\ nbr.entry.timer # NoTimer
  /\ fault => nbr.cacheGone
  /\ nbr' = [nbr EXCEPT !.entry.timer = NoTimer, !.lateTick = TRUE,
                        !.crashed = fault,
                        !.last = NbrCall("lateTick", "none", FALSE, TRUE,
                                         Called(nbr.entry))]
  /\ UNCHANGED <<fibVars, lifetime>>

\* the neighbor cache with one IP, for every setting of maxNeighborProbes
NbrInit ==
  /\ FibStart({TRUE})
  /\ \E m \in MaxProbesValues : nbr = NbrStart(m)
  /\ lifetime = NoDraw(0)

NbrNext ==
  \/ NbrCreatePending
  \/ \E fields \in EntryFields, state \in NeighborEntryState,
        hit \in BOOLEAN, sendOk \in BOOLEAN, caught \in BOOLEAN :
       NbrCreate(fields, state, hit, sendOk, caught)
  \/ \E fields \in ResolvedFields : NbrExternalUpdate(fields)
  \/ \E fields \in EntryFields : NbrUpdateFields(fields)
  \/ \E state \in NeighborEntryState, hit \in BOOLEAN, sendOk \in BOOLEAN,
        caught \in BOOLEAN :
       NbrUpdateState(state, hit, sendOk, caught)
  \/ \E hit \in BOOLEAN, sendOk \in BOOLEAN : NbrSetPending(hit, sendOk)
  \/ \E fault \in BOOLEAN : NbrRunPosted(fault)
  \/ \E hit \in BOOLEAN, sendOk \in BOOLEAN : NbrTick(hit, sendOk)
  \/ \E hit \in BOOLEAN, sendOk \in BOOLEAN, caught \in BOOLEAN :
       NbrProcess(hit, sendOk, caught)
  \/ \E kind \in DestroyKinds : NbrFlush(kind)
  \/ NbrRunCancel
  \/ \E fault \in BOOLEAN : NbrLateTick(fault)

NbrSpec == NbrInit /\ [][NbrNext]_vars

(* ------------------------------------------------------------------------ *)
(* The cache's lock: the event loop thread and a caller of the cache        *)
(* ------------------------------------------------------------------------ *)
\* the event loop thread, which runs the timeouts and the posted tasks, and
\* a thread that calls the cache's API
Threads == {"evb", "caller"}

\* the methods of the cache that take its mutex
CacheLocked ==
  {"receiveAdvertisement", "receiveSolicitation", "flush", "flushAll",
   "lookup", "processEntry"}

\* the calls of the caller thread that are explored
LockOps == {"receiveSolicitation", "receiveAdvertisement", "setPending", "flush"}

\* the end of a critical section during which the entry called the given
\* methods of the cache: the mutex is not recursive, so a method that takes
\* it blocks the thread that holds it; otherwise the mutex is released
Leave(c, t, calls) ==
  IF calls \cap CacheLocked # {}
    THEN [c EXCEPT !.at[t] = "blocked", !.held = calls, !.heldBy = t]
    ELSE [c EXCEPT !.at[t] = "idle", !.lock = "free", !.held = calls,
                   !.heldBy = t]

\* the caller thread starts a call of the cache's API and asks for the mutex
LockCall(op) ==
  /\ NbrRunning
  /\ nbr.at.caller = "idle"
  /\ nbr.ops < MaxLockOps
  /\ nbr' = [nbr EXCEPT !.at.caller = "waiting", !.pendingOp = op,
                        !.ops = @ + 1]
  /\ UNCHANGED <<fibVars, lifetime>>

\* a waiting thread gets the mutex
LockAcquire(t) ==
  /\ NbrRunning
  /\ nbr.at[t] = "waiting"
  /\ nbr.lock = "free"
  /\ nbr' = [nbr EXCEPT !.lock = t, !.at[t] = "locked"]
  /\ UNCHANGED <<fibVars, lifetime>>

\* the caller thread, holding the mutex, runs its call on the entry: a
\* solicitation creates the pending entry, an advertisement drives the entry
\* to REACHABLE, setPending and flush act on an entry that is there
LockCallerRun(hit) ==
  /\ NbrRunning
  /\ nbr.at.caller = "locked"
  /\ LET op == nbr.pendingOp
         e == Called(nbr.entry)
         create == op = "receiveSolicitation" /\ NbrVacant
         r == CASE create ->
                     enter(NewEntry(PendingFields, nbr.maxProbes), "INCOMPLETE",
                           FALSE, nbr.maxProbes)
                [] op = "receiveAdvertisement" /\ nbr.inCache ->
                     updateState(updateFields(e, CHOOSE f \in ResolvedFields : TRUE),
                                 "REACHABLE", FALSE, nbr.maxProbes)
                [] op = "setPending" /\ nbr.inCache ->
                     setPending(e, hit, nbr.maxProbes)
                [] OTHER -> e
         c == IF op = "flush" /\ nbr.inCache THEN destroy(nbr)
              ELSE IF create
                THEN [nbr EXCEPT !.inCache = TRUE, !.published = FALSE,
                                 !.released = FALSE, !.lateTick = FALSE]
                ELSE nbr
     IN /\ hit => r.queried > 0
        /\ nbr' = Leave([c EXCEPT !.entry = r, !.queue = @ + r.posted,
                                  !.pendingOp = "none", !.crashed = r.threw],
                        "caller", r.calls)
  /\ UNCHANGED <<fibVars, lifetime>>

\* the entry's timeout expires on the event loop thread: timeoutExpired
\* calls cache_->processEntry(ip) (line 204), which asks for the mutex
LockTimerExpires ==
  /\ NbrRunning
  /\ nbr.at.evb = "idle"
  /\ nbr.entry.timer # NoTimer
  /\ nbr' = [nbr EXCEPT !.entry.timer = NoTimer, !.at.evb = "waiting"]
  /\ UNCHANGED <<fibVars, lifetime>>

\* processEntry, holding the mutex, processes the entry if the cache still
\* holds it
LockEvbRun(hit) ==
  /\ NbrRunning
  /\ nbr.at.evb = "locked"
  /\ LET c == IF nbr.inCache THEN processEntry(nbr, hit)
              ELSE [nbr EXCEPT !.entry = Called(@)]
     IN /\ hit => c.entry.queried > 0
        /\ nbr' = Leave([c EXCEPT !.crashed = c.entry.threw], "evb",
                        c.entry.calls)
  /\ UNCHANGED <<fibVars, lifetime>>

\* the event loop thread, not inside a timeout, runs the oldest scheduling
\* task (lines 283-285): the task does not go through the cache
LockRunPosted ==
  /\ NbrRunning
  /\ nbr.at.evb = "idle"
  /\ nbr.queue > 0
  /\ LET r == scheduleNextUpdate(Called(nbr.entry))
     IN nbr' = [nbr EXCEPT !.entry = r, !.queue = @ - 1, !.crashed = r.threw]
  /\ UNCHANGED <<fibVars, lifetime>>

\* the event loop thread runs the task of destroy()
LockRunCancel ==
  /\ NbrRunning
  /\ nbr.at.evb = "idle"
  /\ nbr.cancelPosted
  /\ nbr.queue = 0
  /\ nbr' = [nbr EXCEPT !.entry.timer = NoTimer, !.cancelPosted = FALSE,
                        !.released = TRUE]
  /\ UNCHANGED <<fibVars, lifetime>>

\* one cache with the default maxNeighborProbes
LockInit ==
  /\ FibStart({TRUE})
  /\ nbr = NbrStart(3)
  /\ lifetime = NoDraw(0)

LockNext ==
  \/ \E op \in LockOps : LockCall(op)
  \/ \E t \in Threads : LockAcquire(t)
  \/ \E hit \in BOOLEAN : LockCallerRun(hit)
  \/ LockTimerExpires
  \/ \E hit \in BOOLEAN : LockEvbRun(hit)
  \/ LockRunPosted
  \/ LockRunCancel

\* a thread inside a critical section goes on to its end, and a thread that
\* waits for the mutex gets it if the mutex is free again and again
LockSpec ==
  /\ LockInit
  /\ [][LockNext]_vars
  /\ WF_vars(\E hit \in BOOLEAN : LockCallerRun(hit))
  /\ WF_vars(\E hit \in BOOLEAN : LockEvbRun(hit))
  /\ \A t \in Threads : SF_vars(LockAcquire(t))

\* a REACHABLE entry arms its timer with scheduleTimeout(calculateLifetime()):
\* value is what the computation returned
DrawLifetime(value) ==
  /\ ~lifetime.drawn
  /\ lifetime' = [lifetime EXCEPT !.drawn = TRUE, !.value = value]
  /\ UNCHANGED <<fibVars, nbr>>

\* the lifetime computation, for every configured base reachable-time
LifetimeInit ==
  /\ FibStart({TRUE})
  /\ nbr = NbrStart(3)
  /\ \E b \in 0..MaxBaseTimeout : lifetime = NoDraw(b)

LifetimeNext ==
  \E value \in calculateLifetime(lifetime.base) : DrawLifetime(value)

LifetimeSpec == LifetimeInit /\ [][LifetimeNext]_vars


(* ------------------------------------------------------------------------ *)
(* Properties of the FIB updater (checked under Spec)                       *)
(* ------------------------------------------------------------------------ *)
\* the updater returned a state
Applied == last.outcome = "ok"

\* the FIB of the updater's VRF in the state it returned
OutFibId(fam) == FibOf(containerNodes[last.outState.fibs[last.vrf]], fam)
OutFib(fam) == fibNodes[OutFibId(fam)]

\* the FIB of the updater's VRF in the state it was given, as it was then
InFibId(fam) == FibOf(last.inView[1].node, fam)
InFib(fam) == last.inView[1].fibs[fam]
InRoute(fam, p) == last.inView[1].routes[fam][p][1]

ResolvedInRib(fam, p) == last.rib[fam][p].present /\ last.rib[fam][p].resolved

\* the (address, interface id, weight) triples of a RIB and of a FIB entry
RibTriples(e) == {<<h.addr, h.intfID, h.weight>> : h \in e.nhops}
FibTriples(e) == {<<h.addr, h.intf, h.weight>> : h \in e.nhops}

\* a FIB forwardInfo is the projection of a RIB forwardInfo
IsProjection(fibFwd, ribFwd) ==
  /\ fibFwd.action = ribFwd.action
  /\ fibFwd.adminDistance = ribFwd.adminDistance
  /\ FibTriples(fibFwd) = RibTriples(ribFwd)

\* C1: after the updater is applied, each family's FIB of its VRF holds a
\* prefix if and only if the RIB holds a resolved route for that prefix.
\* (Violated: a prefix whose RIB route is present but unresolved stays.)
C1_FibIsResolvedRib ==
  Applied =>
    \A fam \in FamilySet, p \in Prefix :
      (OutFib(fam)[p] # Nil) <=> ResolvedInRib(fam, p)

\* C2: for every resolved RIB route, the FIB route at its prefix after the
\* update carries the projection of its forwardInfo and its classID.
C2_ForwardInfoProjected ==
  Applied =>
    \A fam \in FamilySet, p \in Prefix :
      ResolvedInRib(fam, p) =>
        /\ OutFib(fam)[p] # Nil
        /\ routeNodes[OutFib(fam)[p]].prefix = p
        /\ IsProjection(routeNodes[OutFib(fam)[p]].fwd, last.rib[fam][p].fwd)
        /\ routeNodes[OutFib(fam)[p]].classID = last.rib[fam][p].classID

\* a route with next hops and class id 1 replaced a prior route of class id 0
C2_Witness ==
  /\ Applied
  /\ \E fam \in FamilySet, p \in Prefix :
       /\ ResolvedInRib(fam, p)
       /\ last.rib[fam][p].fwd.action = "NEXTHOPS"
       /\ last.rib[fam][p].classID = 1
       /\ InFib(fam)[p] # Nil
       /\ InRoute(fam, p).classID = 0

\* C3: applying the updater to its own output with the same RIB snapshot
\* returns the very state it was given.
C3_Idempotent ==
  last.repeat => (last.outcome = "ok" /\ last.outState = last.inState)

\* the repeated application ran over a FIB holding a route with next hops
C3_Witness ==
  /\ last.repeat
  /\ \E fam \in FamilySet, p \in Prefix :
       /\ ResolvedInRib(fam, p)
       /\ last.rib[fam][p].fwd.action = "NEXTHOPS"
       /\ OutFib(fam)[p] # Nil

\* the prior FIB route of a prefix agrees with the RIB route in classID and
\* projected forwardInfo
Unchanged(fam, p) ==
  /\ InFib(fam)[p] # Nil
  /\ InRoute(fam, p).classID = last.rib[fam][p].classID
  /\ IsProjection(InRoute(fam, p).fwd, last.rib[fam][p].fwd)

\* C4: a resolved RIB route whose prior FIB route has the same classID and
\* the same projected forwardInfo is represented by the identical prior node;
\* every other resolved route gets a node that did not exist before the call.
C4_IdentityPreserved ==
  Applied =>
    \A fam \in FamilySet, p \in Prefix :
      ResolvedInRib(fam, p) =>
        IF Unchanged(fam, p)
          THEN OutFib(fam)[p] = InFib(fam)[p]
          ELSE OutFib(fam)[p] > last.nRoutes

\* a new FIB was built that shares one node with the prior FIB and holds a
\* fresh one
C4_Witness ==
  /\ Applied
  /\ \E fam \in FamilySet :
       /\ OutFibId(fam) # InFibId(fam)
       /\ \E p, q \in Prefix :
            /\ ResolvedInRib(fam, p) /\ Unchanged(fam, p)
            /\ OutFib(fam)[p] = InFib(fam)[p]
            /\ ResolvedInRib(fam, q) /\ ~Unchanged(fam, q)
            /\ OutFib(fam)[q] > last.nRoutes

\* C5: the state the updater was given is not mutated: its container of the
\* VRF, both FIBs and every route node in them keep the content they had.
C5_InputNotMutated ==
  last.outcome # "none" =>
    ViewOf(last.inState, last.vrf, routeNodes, fibNodes, containerNodes)
      = last.inView

\* the updater returned a new state in which a prior route was replaced
C5_Witness ==
  /\ Applied
  /\ last.outState.id # last.inState.id
  /\ \E fam \in FamilySet, p \in Prefix :
       /\ ResolvedInRib(fam, p)
       /\ InFib(fam)[p] # Nil
       /\ ~Unchanged(fam, p)

\* C6 as stated: every application completes and returns a state.
\* (Violated: no container for the VRF aborts, a next hop without an
\* interface id throws.)
C6_Total == last.outcome \in {"none", "ok"}

\* the RIB snapshot is validated: every next hop of a resolved route
\* carries an interface id
ValidatedRib(ribs) ==
  \A fam \in FamilySet, p \in Prefix :
    (ribs[fam][p].present /\ ribs[fam][p].resolved) =>
      \A h \in ribs[fam][p].fwd.nhops : h.intfID # NoIntf

\* C6 amended: on a state that holds a FIB container for the updater's VRF
\* and a RIB snapshot whose resolved routes' next hops all carry an
\* interface id, the application completes and returns a state.
C6_TotalOnValidated ==
  (last.outcome # "none" /\ last.inState.fibs[last.vrf] # Nil
     /\ ValidatedRib(last.rib))
    => last.outcome = "ok"

\* the updater completed on a snapshot holding DROP, TO_CPU or next hops
C6_Witness ==
  /\ Applied
  /\ \E fam \in FamilySet, p \in Prefix :
       ResolvedInRib(fam, p) /\ last.rib[fam][p].fwd.action = "TO_CPU"
  /\ \E fam \in FamilySet, p \in Prefix :
       ResolvedInRib(fam, p) /\ last.rib[fam][p].fwd.action = "NEXTHOPS"

\* the prior FIB of a family already holds what the RIB snapshot asks for:
\* the same prefixes, each with the RIB route's classID and projected
\* forwardInfo
FamilyUnchanged(fam) ==
  \A p \in Prefix :
    IF ResolvedInRib(fam, p) THEN Unchanged(fam, p) ELSE InFib(fam)[p] = Nil

\* C28: when the updater returns a new state, a family whose routes did not
\* change keeps the identical FIB node of the input state, and the FIB
\* containers of every other VRF are the identical nodes of the input state.
C28_OnlyChangedReplaced ==
  (Applied /\ last.outState.id # last.inState.id) =>
    /\ \A fam \in FamilySet :
         FamilyUnchanged(fam) => OutFibId(fam) = InFibId(fam)
    /\ \A v \in Vrf \ {last.vrf} :
         /\ last.outState.fibs[v] = last.inState.fibs[v]
         /\ last.outState.routeTables[v] = last.inState.routeTables[v]

\* a new state replaced the FIB of one family while the other family's FIB
\* held a route and another VRF was configured
C28_Witness ==
  /\ Applied
  /\ last.outState.id # last.inState.id
  /\ \E fam, other \in FamilySet :
       /\ FamilyUnchanged(fam)
       /\ \E p \in Prefix : InFib(fam)[p] # Nil
       /\ OutFibId(fam) = InFibId(fam)
       /\ OutFibId(other) # InFibId(other)
  /\ \E v \in Vrf \ {last.vrf} : last.inState.fibs[v] # Nil

\* C29: after the updater is applied, the FIB route of every resolved RIB
\* route carries the RIB route's connected flag.
\* (Violated: a prior FIB route with the same classID and forwardInfo is
\* reused whatever its flag, and a clone of a prior route keeps a set flag.)
C29_ConnectedMirrorsRib ==
  Applied =>
    \A fam \in FamilySet, p \in Prefix :
      ResolvedInRib(fam, p) =>
        /\ OutFib(fam)[p] # Nil
        /\ routeNodes[OutFib(fam)[p]].connected = last.rib[fam][p].connected


(* ------------------------------------------------------------------------ *)
(* Properties of the route walker (checked under WalkSpec)                  *)
(* ------------------------------------------------------------------------ *)
\* the route node a state holds for (VRF, family, prefix) in the map the walk
\* was told to use; Nil when the VRF or the prefix is absent
RouteAt(state, v, fam, p) ==
  LET c == TablesOf(walked.isStandaloneRib, state)[v]
  IN IF c = Nil THEN Nil ELSE fibNodes[FibOf(containerNodes[c], fam)][p]

\* the route a callback was given, and the prefix it is about
RouteOfCall(c) == IF c.new # Nil THEN c.new ELSE c.old
PrefixOfCall(c) == routeNodes[RouteOfCall(c)].prefix

\* the callbacks made for one (VRF, family, prefix)
CallsFor(v, fam, p) ==
  {i \in DOMAIN walked.calls :
     /\ walked.calls[i].rid = v
     /\ walked.calls[i].fam = fam
     /\ PrefixOfCall(walked.calls[i]) = p}

\* C7: the walk over the delta of a state with itself makes no callback.
C7_NoCallbackOnSameState ==
  (walked.done /\ walked.old = walked.new) => walked.calls = <<>>

\* a walk over (S, S) where S holds a route in the map the walk uses
C7_Witness ==
  /\ walked.done
  /\ walked.old = walked.new
  /\ walked.isStandaloneRib = standaloneRib
  /\ \E v \in Vrf, fam \in FamilySet, p \in Prefix :
       RouteAt(walked.new, v, fam, p) # Nil

\* C8: the walk makes exactly one callback for each (VRF, family, prefix)
\* whose route node differs between the two states and none for the others:
\* added when only the new state has it, removed when only the old one has
\* it, changed with (old, new) when both have it.
C8_OneCallbackPerDifference ==
  walked.done =>
    \A v \in Vrf, fam \in FamilySet, p \in Prefix :
      LET o == RouteAt(walked.old, v, fam, p)
          n == RouteAt(walked.new, v, fam, p)
      IN IF o = n
           THEN CallsFor(v, fam, p) = {}
           ELSE /\ Cardinality(CallsFor(v, fam, p)) = 1
                /\ \A i \in CallsFor(v, fam, p) :
                     walked.calls[i] =
                       [fn |-> IF o = Nil THEN "added"
                               ELSE IF n = Nil THEN "removed" ELSE "changed",
                        rid |-> v, fam |-> fam, old |-> o, new |-> n]

\* one walk made a changed callback for two distinct nodes of equal content
\* and an added callback
C8_Witness ==
  /\ walked.done
  /\ \E i, j \in DOMAIN walked.calls :
       /\ walked.calls[i].fn = "changed"
       /\ routeNodes[walked.calls[i].old] = routeNodes[walked.calls[i].new]
       /\ walked.calls[j].fn = "added"

\* the container a state holds for a VRF in the map the walk was told to use
TableAt(state, v) == TablesOf(walked.isStandaloneRib, state)[v]

\* C9: for a VRF present in the old state and absent in the new one the walk
\* calls removedFn once for every route of its old FIB, with the VRF's id,
\* and nothing else; for a VRF absent in the old state and present in the
\* new one it calls addedFn once for every route of its new FIB, and nothing
\* else.
C9_VrfRemovedOrAdded ==
  walked.done =>
    \A v \in Vrf :
      /\ (TableAt(walked.old, v) # Nil /\ TableAt(walked.new, v) = Nil) =>
           /\ \A i \in DOMAIN walked.calls :
                walked.calls[i].rid = v => walked.calls[i].fn = "removed"
           /\ \A fam \in FamilySet, p \in Prefix :
                RouteAt(walked.old, v, fam, p) # Nil =>
                  Cardinality({i \in DOMAIN walked.calls :
                                 /\ walked.calls[i].rid = v
                                 /\ walked.calls[i].fam = fam
                                 /\ walked.calls[i].old
                                      = RouteAt(walked.old, v, fam, p)}) = 1
      /\ (TableAt(walked.old, v) = Nil /\ TableAt(walked.new, v) # Nil) =>
           /\ \A i \in DOMAIN walked.calls :
                walked.calls[i].rid = v => walked.calls[i].fn = "added"
           /\ \A fam \in FamilySet, p \in Prefix :
                RouteAt(walked.new, v, fam, p) # Nil =>
                  Cardinality({i \in DOMAIN walked.calls :
                                 /\ walked.calls[i].rid = v
                                 /\ walked.calls[i].fam = fam
                                 /\ walked.calls[i].new
                                      = RouteAt(walked.new, v, fam, p)}) = 1

\* a VRF whose FIBs held routes of both families was removed
C9_Witness ==
  /\ walked.done
  /\ \E v \in Vrf :
       /\ TableAt(walked.old, v) # Nil
       /\ TableAt(walked.new, v) = Nil
       /\ \E p \in Prefix : RouteAt(walked.old, v, "v4", p) # Nil
       /\ \E p \in Prefix : RouteAt(walked.old, v, "v6", p) # Nil
       /\ walked.calls # <<>>

\* the position of a family in the untyped walker's order
FamilyIndex(fam) == CHOOSE i \in 1..Len(Family) : Family[i] = fam

\* callback a comes before callback b in (family, VRF id, prefix) order
Before(a, b) ==
  \/ FamilyIndex(a.fam) < FamilyIndex(b.fam)
  \/ /\ a.fam = b.fam
     /\ \/ a.rid < b.rid
        \/ a.rid = b.rid /\ PrefixOfCall(a) < PrefixOfCall(b)

\* C10: the untyped walk makes every IPv4 callback before any IPv6 callback,
\* within a family in increasing VRF id, within a VRF in increasing prefix.
C10_CallbackOrder ==
  walked.done =>
    \A i, j \in DOMAIN walked.calls :
      i < j => Before(walked.calls[i], walked.calls[j])

\* one walk made callbacks for two VRFs of one family and for both families
C10_Witness ==
  /\ walked.done
  /\ \E i, j, k \in DOMAIN walked.calls :
       /\ walked.calls[i].fam = walked.calls[j].fam
       /\ walked.calls[i].rid # walked.calls[j].rid
       /\ walked.calls[k].fam # walked.calls[i].fam

(* ------------------------------------------------------------------------ *)
(* Errors raised by the walker's callbacks (checked under ThrowSpec)        *)
(* ------------------------------------------------------------------------ *)

\* the callbacks the walk would have made after the one that raised
Skipped == SubSeq(walked.calls, Len(walked.invoked) + 1, Len(walked.calls))

\* C11: when a callback raises, the error reaches the walker's caller and the
\* raising invocation is the last one made: the invocations are the walk's
\* callbacks up to and including that one, and none of the callbacks that
\* follow it (later prefixes, later VRFs, the IPv6 pass) is invoked
C11_ErrorHaltsWalk ==
  walked.done =>
    /\ walked.threw <=> walked.throwAt \in 1..Len(walked.calls)
    /\ walked.threw \/ walked.throwAt = 0
    /\ walked.threw =>
         /\ Len(walked.invoked) = walked.throwAt
         /\ walked.invoked = SubSeq(walked.calls, 1, walked.throwAt)
    /\ ~walked.threw => walked.invoked = walked.calls

\* an IPv4 callback of the first VRF raised while a callback of a later VRF
\* and one of the IPv6 pass were still to come
C11_Witness ==
  /\ walked.done /\ walked.threw
  /\ walked.invoked[Len(walked.invoked)].fam = "v4"
  /\ \E i \in 1..Len(Skipped) :
       /\ Skipped[i].fam = "v4"
       /\ Skipped[i].rid > walked.invoked[Len(walked.invoked)].rid
  /\ \E i \in 1..Len(Skipped) : Skipped[i].fam = "v6"

(* ------------------------------------------------------------------------ *)
(* Properties of the neighbor cache entry (checked under NbrSpec)           *)
(* ------------------------------------------------------------------------ *)

\* the last call was a timer tick that found the entry in the given state
TickedFrom(state) ==
  nbr.last.op = "tick" /\ nbr.last.pre.state = state /\ ~nbr.last.threw

\* C12: an INCOMPLETE or PROBE entry that has seen k timer ticks since it
\* entered that state, with no external update in between, is EXPIRED as soon
\* as k reaches maxProbes, for every configured maxProbes
C12_BoundedExpiry ==
  (nbr.inCache /\ isProbing(nbr.entry)) => nbr.ticks < nbr.maxProbes

\* C13 as stated: an entry created INCOMPLETE with maxProbes = N and left alone
\* is INCOMPLETE after each of its first N-1 ticks, EXPIRED and removed at the
\* N-th, and the N ticks emitted exactly N solicitations
C13_NTicksNSolicitations ==
  nbr.fresh =>
    /\ nbr.ticks < nbr.maxProbes =>
         nbr.inCache /\ nbr.entry.state = "INCOMPLETE"
    /\ nbr.ticks = nbr.maxProbes =>
         /\ ~nbr.inCache /\ nbr.entry.state = "EXPIRED"
         /\ nbr.probes = nbr.maxProbes

\* the probes a new INCOMPLETE entry has left: one was sent before it was made
ProbesOfNew == (nbr.maxProbes - 1) % Uint8

\* C13, amended: an entry created INCOMPLETE and left alone is INCOMPLETE
\* after each of its first K ticks, each of which emits one solicitation, and
\* is EXPIRED and removed at tick K+1, which emits none, where K is
\* (maxProbes - 1) modulo 256; for maxProbes in 1..256 that is the maxProbes-th
\* tick, after maxProbes - 1 solicitations emitted by the ticks
C13_NTicksOneLessSolicitation ==
  nbr.fresh =>
    /\ nbr.ticks <= ProbesOfNew + 1
    /\ nbr.ticks <= ProbesOfNew =>
         /\ nbr.inCache /\ nbr.entry.state = "INCOMPLETE"
         /\ nbr.probes = nbr.ticks
    /\ nbr.ticks = ProbesOfNew + 1 =>
         /\ ~nbr.inCache /\ nbr.entry.state = "EXPIRED"
         /\ nbr.probes = ProbesOfNew

\* with maxProbes = 3 the third tick expired the entry after two solicitations
C13_Witness ==
  /\ nbr.fresh /\ nbr.maxProbes = 3
  /\ nbr.ticks = 3 /\ nbr.probes = 2
  /\ ~nbr.inCache /\ nbr.entry.state = "EXPIRED"

\* C14: an entry held by the cache has a timer scheduled if and only if its
\* state is not EXPIRED, in every reachable state
C14_OneTimerIffNotExpired ==
  nbr.inCache => (nbr.entry.timer # NoTimer <=> nbr.entry.state # "EXPIRED")

\* C15 as stated: the tick of a REACHABLE entry leaves it STALE with the
\* stale-interval timer and emits no solicitation, whatever the hit bit
C15_ReachableTickGoesStale ==
  TickedFrom("REACHABLE") =>
    /\ nbr.inCache /\ nbr.entry.state = "STALE"
    /\ nbr.entry.timer = "stale"
    /\ nbr.entry.sent = 0

\* C15, amended: the tick of a REACHABLE entry reads the hit bit at once; if
\* it is clear the entry is STALE with the stale-interval timer and nothing
\* is sent; if it is set the entry goes through STALE to PROBE within that
\* tick, with one solicitation and the 1-second timer (or to EXPIRED, with no
\* solicitation and no timer, when it has no probes left)
C15_ReachableTickReadsHitBit ==
  TickedFrom("REACHABLE") =>
    /\ nbr.entry.queried = 1
    /\ ~nbr.last.hit =>
         /\ nbr.inCache /\ nbr.entry.state = "STALE"
         /\ nbr.entry.timer = "stale" /\ nbr.entry.sent = 0
    /\ (nbr.last.hit /\ nbr.last.pre.probesLeft > 0) =>
         /\ nbr.inCache /\ nbr.entry.state = "PROBE"
         /\ nbr.entry.timer = "probe" /\ nbr.entry.sent = 1
    /\ (nbr.last.hit /\ nbr.last.pre.probesLeft = 0) =>
         /\ ~nbr.inCache /\ nbr.entry.state = "EXPIRED"
         /\ nbr.entry.timer = NoTimer /\ nbr.entry.sent = 0

\* the lifetime timer of a REACHABLE entry fired while the hit bit was set
C15_Witness ==
  /\ TickedFrom("REACHABLE") /\ nbr.last.pre.timer = "lifetime"
  /\ nbr.last.hit
  /\ nbr.entry.state = "PROBE" /\ nbr.entry.sent = 1

\* C16 as stated: the tick of a STALE entry with the hit bit set moves it to
\* PROBE, emits one solicitation, takes one from probesLeft and schedules the
\* 1-second timer; with the hit bit clear the entry stays STALE, nothing is
\* sent, probesLeft is unchanged and the stale-interval timer is scheduled
C16_StaleTick ==
  TickedFrom("STALE") =>
    /\ nbr.last.hit =>
         /\ nbr.inCache /\ nbr.entry.state = "PROBE"
         /\ nbr.entry.sent = 1
         /\ nbr.entry.probesLeft = nbr.last.pre.probesLeft - 1
         /\ nbr.entry.timer = "probe"
    /\ ~nbr.last.hit =>
         /\ nbr.inCache /\ nbr.entry.state = "STALE"
         /\ nbr.entry.sent = 0
         /\ nbr.entry.probesLeft = nbr.last.pre.probesLeft
         /\ nbr.entry.timer = "stale"

\* C16, amended: as stated when the entry has probes left; a STALE entry
\* without probes left whose hit bit is set goes to EXPIRED at that tick, with
\* no solicitation and no timer
C16_StaleTickWithProbesLeft ==
  TickedFrom("STALE") =>
    /\ (nbr.last.hit /\ nbr.last.pre.probesLeft > 0) =>
         /\ nbr.inCache /\ nbr.entry.state = "PROBE"
         /\ nbr.entry.sent = 1
         /\ nbr.entry.probesLeft = nbr.last.pre.probesLeft - 1
         /\ nbr.entry.timer = "probe"
    /\ (nbr.last.hit /\ nbr.last.pre.probesLeft = 0) =>
         /\ ~nbr.inCache /\ nbr.entry.state = "EXPIRED"
         /\ nbr.entry.sent = 0 /\ nbr.entry.timer = NoTimer
    /\ ~nbr.last.hit =>
         /\ nbr.inCache /\ nbr.entry.state = "STALE"
         /\ nbr.entry.sent = 0
         /\ nbr.entry.probesLeft = nbr.last.pre.probesLeft
         /\ nbr.entry.timer = "stale"

\* the stale-interval timer of a STALE entry fired with the hit bit clear
C16_Witness ==
  /\ TickedFrom("STALE") /\ nbr.last.pre.timer = "stale"
  /\ ~nbr.last.hit
  /\ nbr.entry.state = "STALE" /\ nbr.entry.timer = "stale"

\* C17: an advertisement with a valid MAC for an entry in any state but
\* EXPIRED leaves it REACHABLE with probesLeft = maxProbes; its timer is
\* replaced by the lifetime timer, so the entry stays REACHABLE until a timer
\* armed after the advertisement fires, and that timer is the lifetime timer
\* once the scheduling tasks have run
C17_UpdateMakesReachable ==
  (nbr.lastExt = "externalUpdate" /\ ~nbr.tickedAfter) =>
    /\ nbr.entry.state = "REACHABLE"
    /\ nbr.entry.probesLeft = nbr.maxProbes
    /\ nbr.queue = 0 => nbr.entry.timer = "lifetime"

\* C18 as stated: an entry in the cache that is INCOMPLETE is pending, and
\* one that is STALE, PROBE or REACHABLE is not pending and has a MAC, after
\* every sequence of calls
C18_PendingIffIncomplete ==
  nbr.inCache => Agree(nbr.entry.fields, nbr.entry.state)

\* C18, amended: the entry keeps that relation between its state and its
\* fields as long as every call made on it from outside (constructor,
\* updateFields, updateState, setPending) gave it fields and a state that
\* agree; timer ticks and scheduling tasks never break it
C18_PendingIffIncompleteWhenAgreed ==
  (nbr.inCache /\ nbr.agreed) => Agree(nbr.entry.fields, nbr.entry.state)

\* a pending entry got an advertisement and was later moved to PROBE by a tick
C18_Witness ==
  /\ nbr.inCache /\ nbr.agreed
  /\ nbr.lastExt = "externalUpdate" /\ nbr.last.pre.fields.mac # ZeroMac
  /\ nbr.last.op = "tick" /\ nbr.entry.state = "PROBE"

\* C19: an entry held by the cache is never in state UNINITIALIZED or DELAY
C19_NeverUninitializedOrDelay ==
  nbr.inCache => nbr.entry.state \notin {"UNINITIALIZED", "DELAY"}

\* C21: destroying an entry cancels its timer on the event loop before its
\* memory is released, so that no scheduling task posted by the entry is left
\* to run on released memory, and once the destruction has been requested no
\* timeout of the entry expires any more.
\* (Violated: the timeout stays scheduled until the event loop runs the task
\* of destroy(), and may expire before that.)
C21_NoCallbackAfterDestroy ==
  /\ nbr.released => (nbr.entry.timer = NoTimer /\ nbr.queue = 0)
  /\ ~nbr.lateTick

\* C23: when a timer tick drives the entry to EXPIRED, no timer is scheduled
\* for it, it is removed from the cache and a neighbor-removed event is
\* published; an EXPIRED entry never remains in the cache with a timer
\* scheduled.
\* (Violated: a call from outside can leave an EXPIRED entry in the cache
\* with the timer it had.)
C23_ExpiredIsRemoved ==
  /\ (nbr.last.op = "tick" /\ ~nbr.last.threw /\ nbr.entry.state = "EXPIRED")
       => (nbr.entry.timer = NoTimer /\ ~nbr.inCache /\ nbr.published)
  /\ nbr.inCache =>
       ~(nbr.entry.state = "EXPIRED" /\ nbr.entry.timer # NoTimer)

\* the last call was a timer tick of an INCOMPLETE, PROBE or STALE entry whose
\* solicitation failed to be sent
FailedTick ==
  /\ nbr.last.op = "tick" /\ nbr.last.failed
  /\ nbr.last.pre.state \in {"INCOMPLETE", "PROBE", "STALE"}

\* C24 as stated: when sending the solicitation fails during a tick of an
\* INCOMPLETE, PROBE or STALE entry, the entry keeps the state it had and a
\* next tick is scheduled
C24_SendFailureKeepsState ==
  FailedTick =>
    /\ nbr.inCache
    /\ nbr.entry.state = nbr.last.pre.state
    /\ nbr.entry.timer # NoTimer

\* C24, amended: the entry stays in the cache in the state the tick gives it
\* when the send succeeds: INCOMPLETE and PROBE are kept, a STALE entry has
\* been moved to PROBE before the send is tried; the attempt is taken from
\* probesLeft and the 1-second timer is scheduled
C24_SendFailureKeepsProbing ==
  FailedTick =>
    /\ nbr.inCache /\ ~nbr.last.threw
    /\ nbr.entry.state =
         (IF nbr.last.pre.state = "STALE" THEN "PROBE" ELSE nbr.last.pre.state)
    /\ nbr.entry.probesLeft = nbr.last.pre.probesLeft - 1
    /\ nbr.entry.timer = "probe"

\* the send failed at the tick of a STALE entry whose hit bit was set, and
\* at the tick of a pending entry
C24_Witness ==
  /\ FailedTick
  /\ nbr.last.pre.state = "STALE" /\ nbr.last.hit
  /\ nbr.entry.state = "PROBE" /\ nbr.entry.timer = "probe"

\* C26: process() on an entry whose timer is scheduled changes nothing:
\* state, probesLeft and timer are unchanged, no solicitation is asked for
\* and the hit bit is not read; process() changes the timer only when none
\* was scheduled
C26_ProcessWhileScheduledIsNoOp ==
  /\ (nbr.last.op = "process" /\ nbr.last.pre.timer # NoTimer) =>
       /\ ~nbr.last.threw
       /\ nbr.entry.fields = nbr.last.pre.fields
       /\ nbr.entry.state = nbr.last.pre.state
       /\ nbr.entry.probesLeft = nbr.last.pre.probesLeft
       /\ nbr.entry.timer = nbr.last.pre.timer
       /\ nbr.entry.sent = 0 /\ nbr.entry.queried = 0
  /\ (nbr.last.op = "process" /\ nbr.entry.timer # nbr.last.pre.timer) =>
       nbr.last.pre.timer = NoTimer

\* process() was called on a REACHABLE entry whose lifetime timer was
\* scheduled, and on an entry without a timer, which it gave one
C26_Witness ==
  /\ nbr.last.op = "process"
  /\ nbr.last.pre.state = "REACHABLE" /\ nbr.last.pre.timer = "lifetime"
  /\ nbr.entry.state = "REACHABLE"

\* the methods of the cache called during a critical section do not take
\* the mutex, no thread is blocked inside one, and the mutex is held exactly
\* by the thread that is inside one
LockSafe ==
  /\ nbr.held \cap CacheLocked = {}
  /\ \A t \in Threads : nbr.at[t] # "blocked"
  /\ \A t \in Threads : (nbr.lock = t) <=> (nbr.at[t] = "locked")
  /\ nbr.heldBy = "evb" =>
       nbr.held \subseteq
         {"probeFor", "isHit", "getStaleEntryInterval", "getBaseTimeout"}

\* C22 as stated: while the timer handler holds the cache lock the entry
\* calls back into the cache only through probeFor and isHit, and no thread
\* is blocked
C22_OnlyProbeForAndIsHit ==
  /\ \A t \in Threads : nbr.at[t] # "blocked"
  /\ nbr.heldBy = "evb" => nbr.held \subseteq {"probeFor", "isHit"}

\* C22, amended: no deadlock on the cache lock: the timer handler enters the
\* cache once, through processEntry, and while the lock is held the entry
\* calls back into the cache through probeFor and isHit and, when it
\* schedules its next update, through the getters of the stale interval and
\* the base timeout, never through a method that takes the lock; every
\* thread that waits for the lock gets it and leaves its critical section
C22_NoDeadlock ==
  /\ []LockSafe
  /\ \A t \in Threads :
       (nbr.at[t] = "waiting") ~> (nbr.at[t] = "idle" \/ nbr.crashed)

\* a timer tick has asked for a solicitation and read the hit bit under the
\* lock while the caller thread was waiting for it
C22_Witness ==
  /\ nbr.heldBy = "evb"
  /\ {"isHit", "probeFor"} \subseteq nbr.held
  /\ nbr.at.caller = "waiting"

\* the states enter() refuses (lines 276-281)
InvalidEnterStates == {"PROBE", "DELAY", "UNINITIALIZED", "EXPIRED"}

\* C25: updateState into DELAY, UNINITIALIZED, PROBE or EXPIRED raises an
\* error and leaves the entry as it was: state, probesLeft and timer are
\* those before the call and no scheduling task is posted.
\* (Violated: state_ is written before the state is validated.)
C25_FailedUpdateLeavesEntry ==
  (nbr.last.op = "updateState" /\ nbr.last.arg \in InvalidEnterStates) =>
    /\ nbr.last.threw
    /\ nbr.entry.state = nbr.last.pre.state
    /\ nbr.entry.probesLeft = nbr.last.pre.probesLeft
    /\ nbr.entry.timer = nbr.last.pre.timer
    /\ nbr.entry.posted = 0

\* C27: in every reachable state of an entry 0 <= probesLeft <= maxProbes,
\* for every configured maxProbes, and the solicitations emitted since the
\* last call from outside never exceed maxProbes.
\* (Violated: with maxProbes = 0 a pending entry starts with 255 probes.)
C27_ProbesLeftInRange ==
  nbr.inCache =>
    /\ nbr.entry.probesLeft >= 0
    /\ nbr.entry.probesLeft <= nbr.maxProbes
    /\ nbr.probes <= nbr.maxProbes

\* C30: an update wins over a pending timer: when a timer armed before
\* updateState(REACHABLE) fires before the scheduling task of that call has
\* armed the lifetime timer, the entry stays REACHABLE and no solicitation
\* is emitted.
\* (Violated: enter() leaves the old timer scheduled and its tick runs the
\* state machine on the REACHABLE entry.)
C30_UpdateWinsOverPendingTimer ==
  (nbr.last.op = "tick" /\ nbr.lastExt = "updateState"
     /\ nbr.last.pre.state = "REACHABLE" /\ ~nbr.tickedAfter) =>
    /\ nbr.entry.state = "REACHABLE"
    /\ nbr.entry.sent = 0

\* the last call was setPending() or updateState(STALE) on the cache's entry
EnteredStale ==
  nbr.last.op \in {"setPending", "updateState"} /\ nbr.last.arg = "STALE"

\* what such a call has done when it returns: the state machine has run once
\* on the entry with all its probes
EnteredStaleReturns ==
  EnteredStale =>
    /\ ~nbr.last.threw
    /\ nbr.entry.queried = 1 /\ nbr.entry.posted = 1
    /\ nbr.last.hit =>
         /\ nbr.entry.state = "PROBE" /\ nbr.entry.sent = 1
         /\ nbr.entry.probesLeft = nbr.maxProbes - 1
    /\ ~nbr.last.hit =>
         /\ nbr.entry.state = "STALE" /\ nbr.entry.sent = 0
         /\ nbr.entry.probesLeft = nbr.maxProbes

\* the scheduling task that runs next after such a call arms the timer of
\* the state the call left
EnteredStaleSchedules ==
  (EnteredStale /\ nbr'.last.op = "runPosted") =>
    nbr'.entry.timer = (IF nbr.last.hit THEN "probe" ELSE "stale")

\* C31: entering STALE through setPending() or updateState(STALE) resets
\* probesLeft to maxProbes and runs the state machine at once: with the hit
\* bit set the call returns with the entry in PROBE, one solicitation emitted
\* and probesLeft = maxProbes - 1, and the timer then scheduled is the
\* 1-second timer; with the hit bit clear it returns with the entry in STALE,
\* probesLeft = maxProbes, and the stale-interval timer is scheduled.
\* (Violated: probesLeft_ holds maxProbes modulo 256, and an entry that has
\* no probe after the reset goes to EXPIRED instead of PROBE.)
C31_EnterStaleRunsAtOnce ==
  []EnteredStaleReturns /\ [][EnteredStaleSchedules]_vars

\* the calls that run the state machine on an entry of the cache: the expiry
\* of its timeout, and process() called by the cache
StateMachineRuns == {"tick", "process"}

\* a run of the state machine on a STALE entry while the hit bit is clear
\* leaves it STALE in the cache with its probes, emits nothing, publishes no
\* removal and leaves a timer scheduled, the stale-interval one after a tick
StaleStaysStale ==
  (/\ nbr.maxProbes > 0
   /\ nbr.inCache /\ nbr.entry.state = "STALE"
   /\ nbr'.last.op \in StateMachineRuns /\ ~nbr'.last.hit) =>
    /\ ~nbr'.crashed /\ ~nbr'.last.threw
    /\ nbr'.inCache /\ ~nbr'.published
    /\ nbr'.entry.state = "STALE"
    /\ nbr'.entry.sent = 0
    /\ nbr'.entry.probesLeft = nbr.entry.probesLeft
    /\ nbr'.entry.timer # NoTimer
    /\ nbr'.last.op = "tick" => nbr'.entry.timer = "stale"

\* a run of the state machine that made the entry EXPIRED found it INCOMPLETE
\* or PROBE without a probe left, and the cache then removed it
ExpiredOnlyFromProbing ==
  (/\ nbr.maxProbes > 0
   /\ nbr.last.op \in StateMachineRuns /\ ~nbr.last.threw
   /\ nbr.last.pre.state # "EXPIRED" /\ nbr.entry.state = "EXPIRED") =>
    /\ nbr.last.pre.state \in {"INCOMPLETE", "PROBE"}
    /\ nbr.last.pre.probesLeft = 0
    /\ nbr.entry.sent = 0

BaseMs == lifetime.base * MsPerSecond

\* C20 as stated: every lifetime is at least base/2 and strictly less than
\* base + base/2 (in milliseconds), for every base, 0 included
C20_LifetimeInRange ==
  lifetime.drawn =>
    /\ lifetime.value >= BaseMs \div 2
    /\ lifetime.value < BaseMs + (BaseMs \div 2)

\* C20, amended: every lifetime is at least base/2; it is strictly less than
\* base + base/2 for every base above 0, also one that does not fit in 32
\* bits; with base = 0 the lifetime is 0
C20_LifetimeInRangeOrZero ==
  lifetime.drawn =>
    /\ lifetime.value >= BaseMs \div 2
    /\ lifetime.base > 0 => lifetime.value < BaseMs + (BaseMs \div 2)
    /\ lifetime.base = 0 => lifetime.value = 0

\* a lifetime above base/2 drawn for a base that does not fit the draw's width
C20_Witness ==
  /\ lifetime.drawn
  /\ BaseMs >= Uint32
  /\ lifetime.value > BaseMs \div 2

====
